---- MODULE Spec2Model ----
(***************************************************************************)
(* skywalking-mcp: the duration/time-range normalizer                      *)
(* (internal/tools/common.go) and the trace view reshaper                  *)
(* (internal/tools/trace.go).                                              *)
(*                                                                         *)
(* Strings are sequences of one-character strings, so that the parsers     *)
(* are modelled character by character.  Wall-clock instants of the        *)
(* duration normalizer are whole seconds since the Unix epoch, the finest  *)
(* granularity FormatTimeByStep can print; the time zone is UTC.  Span and *)
(* trace times are milliseconds since the Unix epoch, as in the code.      *)
(***************************************************************************)
EXTENDS Integers, Sequences, FiniteSets, TLC

VARIABLES
    op,      \* the function under execution
    pc,      \* "call": about to run on args; "done": returned
    args,    \* the actual parameters of the call
    clock,   \* successive readings of time.Now() during the call
    locals,  \* the local variables of the function at its return
    result   \* the returned value

vars == <<op, pc, args, clock, locals, result>>

None == [none |-> TRUE]

(***************************************************************************)
(* Characters and decimal numbers                                          *)
(***************************************************************************)
Digits == <<"0", "1", "2", "3", "4", "5", "6", "7", "8", "9">>

IsDigit(c) == \E i \in 1..10 : Digits[i] = c

DigitVal(c) == (CHOOSE i \in 1..10 : Digits[i] = c) - 1

RECURSIVE Dec(_)
\* fmt's %d of a natural number
Dec(n) == IF n < 10 THEN <<Digits[n + 1]>>
          ELSE Dec(n \div 10) \o <<Digits[(n % 10) + 1]>>

\* fmt's %d of an integer
SprintD(n) == IF n < 0 THEN <<"-">> \o Dec(-n) ELSE Dec(n)

Drop(s, k) == SubSeq(s, k + 1, Len(s))

Take(s, k) == SubSeq(s, 1, k)

RECURSIVE DigitRun(_)
\* length of the longest prefix of s made of decimal digits
DigitRun(s) == IF s # <<>> /\ IsDigit(s[1]) THEN 1 + DigitRun(Tail(s)) ELSE 0

RECURSIVE Atoi(_)
\* value of a sequence of decimal digits (0 for the empty sequence)
Atoi(s) == IF s = <<>> THEN 0
           ELSE Atoi(Take(s, Len(s) - 1)) * 10 + DigitVal(s[Len(s)])

RECURSIVE Pow10(_)
Pow10(k) == IF k = 0 THEN 1 ELSE 10 * Pow10(k - 1)

Lower(c) ==
    CASE c = "N" -> "n" [] c = "O" -> "o" [] c = "W" -> "w"
      [] c = "D" -> "d" [] c = "H" -> "h" [] c = "X" -> "x"
      [] OTHER -> c

\* strings.EqualFold on the characters the model uses
EqualFold(s, t) ==
    /\ Len(s) = Len(t)
    /\ \A i \in 1..Len(s) : Lower(s[i]) = Lower(t[i])

(***************************************************************************)
(* time.ParseDuration: an optional sign, then one or more terms made of a  *)
(* decimal number and a unit; durations are whole seconds                  *)
(***************************************************************************)
Minute == 60
Hour == 3600
Day == 24 * Hour

\* the entries of time's unitMap that are whole seconds
UnitNames == {<<"s">>, <<"m">>, <<"h">>}

UnitOf(u) == CASE u = <<"s">> -> 1 [] u = <<"m">> -> Minute [] u = <<"h">> -> Hour

RECURSIVE UnitRun(_)
\* length of the longest prefix of s free of digits and periods
UnitRun(s) == IF s # <<>> /\ ~IsDigit(s[1]) /\ s[1] # "." THEN 1 + UnitRun(Tail(s)) ELSE 0

RECURSIVE DurationTerms(_)
\* the loop of time.ParseDuration over the number-and-unit terms
DurationTerms(s) ==
    IF s = <<>> THEN [ok |-> TRUE, d |-> 0]
    ELSE IF ~(s[1] = "." \/ IsDigit(s[1])) THEN [ok |-> FALSE, d |-> 0]
    ELSE
      LET pl == DigitRun(s)
          v == Atoi(Take(s, pl))
          s1 == Drop(s, pl)
          hasDot == s1 # <<>> /\ s1[1] = "."
          fl == IF hasDot THEN DigitRun(Tail(s1)) ELSE 0
          f == IF hasDot THEN Atoi(Take(Tail(s1), fl)) ELSE 0
          s2 == IF hasDot THEN Drop(Tail(s1), fl) ELSE s1
          ul == UnitRun(s2)
          u == Take(s2, ul)
      IN  IF pl = 0 /\ fl = 0 THEN [ok |-> FALSE, d |-> 0]
          ELSE IF ul = 0 THEN [ok |-> FALSE, d |-> 0]
          ELSE IF u \notin UnitNames THEN [ok |-> FALSE, d |-> 0]
          ELSE LET rest == DurationTerms(Drop(s2, ul))
               IN  [ok |-> rest.ok,
                    d |-> v * UnitOf(u) + (f * UnitOf(u)) \div Pow10(fl) + rest.d]

\* the sign applied to the sum of the terms
SignedTerms(t, neg) == [ok |-> t.ok, d |-> IF neg THEN -t.d ELSE t.d]

\* the part of time.ParseDuration after the sign
UnsignedDuration(body, neg) ==
    IF body = <<"0">> THEN [ok |-> TRUE, d |-> 0]
    ELSE IF body = <<>> THEN [ok |-> FALSE, d |-> 0]
    ELSE SignedTerms(DurationTerms(body), neg)

TimeParseDuration(s) ==
    IF s # <<>> /\ s[1] \in {"-", "+"} THEN UnsignedDuration(Tail(s), s[1] = "-")
    ELSE UnsignedDuration(s, FALSE)

(***************************************************************************)
(* fmt.Sscanf(s, "%d", &n)                                                 *)
(***************************************************************************)
RECURSIVE SpaceRun(_)
SpaceRun(s) == IF s # <<>> /\ s[1] = " " THEN 1 + SpaceRun(Tail(s)) ELSE 0

SscanfD(s) ==
    LET s1 == Drop(s, SpaceRun(s))
        signed == s1 # <<>> /\ s1[1] \in {"-", "+"}
        neg == s1 # <<>> /\ s1[1] = "-"
        s2 == IF signed THEN Tail(s1) ELSE s1
        dl == DigitRun(s2)
    IN  IF dl = 0 THEN [ok |-> FALSE, n |-> 0]
        ELSE [ok |-> TRUE, n |-> IF neg THEN -Atoi(Take(s2, dl)) ELSE Atoi(Take(s2, dl))]

(***************************************************************************)
(* time.Parse on the layouts of parseAbsoluteTime and on TimeFormatFull.   *)
(* A layout is the sequence of its chunks: "2006" year, "01" month,        *)
(* "02" day, "15" hour, "04" minute, "05" second, anything else a literal. *)
(***************************************************************************)
LayoutFull == <<"2006", "-", "01", "-", "02", " ", "15", ":", "04", ":", "05">>
LayoutMinuteColon == <<"2006", "-", "01", "-", "02", " ", "15", ":", "04">>
LayoutMinute == <<"2006", "-", "01", "-", "02", " ", "15", "04">>
LayoutHour == <<"2006", "-", "01", "-", "02", " ", "15">>
LayoutSecond == <<"2006", "-", "01", "-", "02", " ", "15", "04", "05">>
LayoutDay == <<"2006", "-", "01", "-", "02">>

timeFormats == <<LayoutFull, LayoutMinuteColon, LayoutMinute, LayoutHour, LayoutSecond, LayoutDay>>

TimeFormatFull == LayoutFull

IsLeap(y) == y % 4 = 0 /\ (y % 100 # 0 \/ y % 400 = 0)

daysIn(m, y) ==
    IF m = 2 THEN (IF IsLeap(y) THEN 29 ELSE 28)
    ELSE IF m \in {4, 6, 9, 11} THEN 30 ELSE 31

\* days from 1970-01-01 to the civil date y-m-d
DaysFromCivil(y, m, d) ==
    LET yy == IF m <= 2 THEN y - 1 ELSE y
        era == yy \div 400
        yoe == yy - era * 400
        mp == IF m > 2 THEN m - 3 ELSE m + 9
        doy == (153 * mp + 2) \div 5 + d - 1
        doe == yoe * 365 + yoe \div 4 - yoe \div 100 + doy
    IN  era * 146097 + doe - 719468

\* time's getnum: one or two digits, exactly two when fixed
GetNum(v, fixed) ==
    IF v = <<>> \/ ~IsDigit(v[1]) THEN [ok |-> FALSE, n |-> 0, rest |-> v]
    ELSE IF Len(v) < 2 \/ ~IsDigit(v[2])
         THEN (IF fixed THEN [ok |-> FALSE, n |-> 0, rest |-> v]
               ELSE [ok |-> TRUE, n |-> DigitVal(v[1]), rest |-> Tail(v)])
    ELSE [ok |-> TRUE, n |-> DigitVal(v[1]) * 10 + DigitVal(v[2]), rest |-> Drop(v, 2)]

\* the fractional second time.Parse accepts after a seconds field
SkipFraction(v) ==
    IF Len(v) >= 2 /\ v[1] \in {".", ","} /\ IsDigit(v[2])
    THEN Drop(v, 1 + DigitRun(Tail(v)))
    ELSE v

BadTime == [ok |-> FALSE, y |-> 0, mo |-> 0, d |-> 0, h |-> 0, mi |-> 0, s |-> 0]

RECURSIVE ParseChunks(_, _, _)
RECURSIVE NumberChunk(_, _, _, _, _, _)

\* One numeric field of the layout: g is what getnum read, the field must lie
\* in lo..hi; a seconds field may be followed by a fraction.
NumberChunk(more, g, f, field, lo, hi) ==
    IF g.ok /\ g.n >= lo /\ g.n <= hi
    THEN ParseChunks(more, IF field = "s" THEN SkipFraction(g.rest) ELSE g.rest,
                     [f EXCEPT ![field] = g.n])
    ELSE BadTime

\* f: the fields read so far; returns the fields, or BadTime
ParseChunks(layout, v, f) ==
    IF layout = <<>> THEN (IF v = <<>> THEN f ELSE BadTime)
    ELSE CASE layout[1] = "2006" ->
                IF Len(v) >= 4 /\ DigitRun(Take(v, 4)) = 4
                THEN ParseChunks(Tail(layout), Drop(v, 4), [f EXCEPT !.y = Atoi(Take(v, 4))])
                ELSE BadTime
           [] layout[1] = "01" -> NumberChunk(Tail(layout), GetNum(v, TRUE), f, "mo", 1, 12)
           [] layout[1] = "02" -> NumberChunk(Tail(layout), GetNum(v, TRUE), f, "d", 0, 99)
           [] layout[1] = "15" -> NumberChunk(Tail(layout), GetNum(v, FALSE), f, "h", 0, 23)
           [] layout[1] = "04" -> NumberChunk(Tail(layout), GetNum(v, TRUE), f, "mi", 0, 59)
           [] layout[1] = "05" -> NumberChunk(Tail(layout), GetNum(v, TRUE), f, "s", 0, 59)
           [] OTHER ->
                IF v # <<>> /\ v[1] = layout[1] THEN ParseChunks(Tail(layout), Tail(v), f)
                ELSE BadTime

\* the instant of the fields f, in seconds since the Unix epoch, once the day
\* of the month is validated
CivilTime(f) ==
    IF f.ok /\ f.d >= 1 /\ f.d <= daysIn(f.mo, f.y)
    THEN [ok |-> TRUE,
          t |-> DaysFromCivil(f.y, f.mo, f.d) * Day + f.h * Hour + f.mi * Minute + f.s]
    ELSE [ok |-> FALSE, t |-> 0]

\* time.Parse(layout, value): [ok, t]
TimeParse(layout, value) ==
    CivilTime(ParseChunks(layout, value,
                  [ok |-> TRUE, y |-> 1, mo |-> 1, d |-> 1, h |-> 0, mi |-> 0, s |-> 0]))

(***************************************************************************)
(* The duration/time-range normalizer (internal/tools/common.go)           *)
(***************************************************************************)
DefaultDuration == 30
nowKeyword == <<"n", "o", "w">>
DefaultTraceDuration == <<"1", "h">>

StepDay == "DAY"
StepHour == "HOUR"
StepMinute == "MINUTE"
StepSecond == "SECOND"

\* api.Step.IsValid
StepIsValid(step) == step \in {StepDay, StepHour, StepMinute, StepSecond}

\* The formatted timestamp is its layout and the instant truncated to the
\* layout's last field: [layout, at] with at counted in units of that field.
FormatTimeByStep(t, step) ==
    CASE step = StepDay -> [layout |-> "2006-01-02", at |-> t \div Day]
      [] step = StepHour -> [layout |-> "2006-01-02 15", at |-> t \div Hour]
      [] step = StepMinute -> [layout |-> "2006-01-02 1504", at |-> t \div Minute]
      [] step = StepSecond -> [layout |-> "2006-01-02 150405", at |-> t]
      [] OTHER -> [layout |-> "2006-01-02 15:04:05", at |-> t]

\* determineAdaptiveStep with strict comparisons
determineAdaptiveStep_Strict(startTime, endTime) ==
    IF endTime - startTime > 7 * 24 * Hour THEN StepDay
    ELSE IF endTime - startTime > 24 * Hour THEN StepHour
    ELSE IF endTime - startTime > Hour THEN StepMinute
    ELSE StepSecond

determineAdaptiveStep(startTime, endTime) ==
    IF endTime - startTime >= 7 * 24 * Hour THEN StepDay
    ELSE IF endTime - startTime >= 24 * Hour THEN StepHour
    ELSE IF endTime - startTime >= Hour THEN StepMinute
    ELSE StepSecond

\* the day branch counting hours
LegacyDays_AsHours(scanned, now) ==
    IF scanned.ok /\ scanned.n > 0
    THEN [startTime |-> now - scanned.n * Hour, endTime |-> now, step |-> StepDay]
    ELSE [startTime |-> now - 7 * Day, endTime |-> now, step |-> StepDay]

\* the day branch accepting a count of zero
LegacyDays_AcceptsZero(scanned, now) ==
    IF scanned.ok /\ scanned.n >= 0
    THEN [startTime |-> now - scanned.n * Day, endTime |-> now, step |-> StepDay]
    ELSE [startTime |-> now - 7 * Day, endTime |-> now, step |-> StepDay]

\* The day branch of parseLegacyDuration; scanned is what Sscanf read before
\* the suffix, AddDate(0, 0, -n) is n days of 24 hours in UTC.
LegacyDays(scanned, now) ==
    IF scanned.ok /\ scanned.n > 0
    THEN [startTime |-> now - scanned.n * Day, endTime |-> now, step |-> StepDay]
    ELSE [startTime |-> now - 7 * Day, endTime |-> now, step |-> StepDay]

\* the hour branch of parseLegacyDuration
LegacyHours(scanned, now) ==
    IF scanned.ok /\ scanned.n > 0
    THEN [startTime |-> now - scanned.n * Hour, endTime |-> now, step |-> StepHour]
    ELSE [startTime |-> now - 1 * Hour, endTime |-> now, step |-> StepHour]

\* now: the reading of time.Now() taken by parseLegacyDuration
parseLegacyDuration(durationStr, now) ==
    IF Len(durationStr) > 1 /\ durationStr[Len(durationStr)] \in {"d", "D"}
    THEN LegacyDays(SscanfD(Take(durationStr, Len(durationStr) - 1)), now)
    ELSE IF Len(durationStr) > 1 /\ durationStr[Len(durationStr)] \in {"h", "H"}
    THEN LegacyHours(SscanfD(Take(durationStr, Len(durationStr) - 1)), now)
    ELSE [startTime |-> now - 7 * Day, endTime |-> now, step |-> StepDay]

\* the signed branch without the test of the sign
SignedWindow_NoSign(now, duration) ==
    [startTime |-> now, endTime |-> now + duration,
     step |-> determineAdaptiveStep(now, now + duration)]

\* the branch of ParseDuration for a string time.ParseDuration accepted
SignedWindow(now, duration) ==
    IF duration < 0
    THEN [startTime |-> now + duration, endTime |-> now,
          step |-> determineAdaptiveStep(now + duration, now)]
    ELSE [startTime |-> now, endTime |-> now + duration,
          step |-> determineAdaptiveStep(now, now + duration)]

\* the result of ParseDuration always carrying the flag
ParseDurationResult_FlagAlways(w, step, coldStage) ==
    [startTime |-> w.startTime, endTime |-> w.endTime, step |-> step,
     ret |-> [Start |-> FormatTimeByStep(w.startTime, step),
              End |-> FormatTimeByStep(w.endTime, step),
              Step |-> step,
              ColdStage |-> IF coldStage THEN "true" ELSE "false"]]

\* An api.Duration is [Start, End, Step, ColdStage]; ColdStage is the *bool:
\* "nil", or the value pointed to.  The value is the returned api.Duration
\* (ret) together with the local variables startTime, endTime and step it
\* was built from.
ParseDurationResult(w, step, coldStage) ==
    [startTime |-> w.startTime, endTime |-> w.endTime, step |-> step,
     ret |-> [Start |-> FormatTimeByStep(w.startTime, step),
              End |-> FormatTimeByStep(w.endTime, step),
              Step |-> step,
              ColdStage |-> IF coldStage THEN "true" ELSE "nil"]]

\* ParseDuration once time.ParseDuration returned parsed; readings[1] is
\* ParseDuration's time.Now(), readings[2] the one parseLegacyDuration takes
ParseDurationWindow(parsed, durationStr, readings) ==
    IF parsed.ok THEN SignedWindow(readings[1], parsed.d)
    ELSE parseLegacyDuration(durationStr, readings[2])

ParseDurationStep(w, coldStage) ==
    ParseDurationResult(w, IF StepIsValid(w.step) THEN w.step ELSE StepMinute, coldStage)

ParseDuration(durationStr, coldStage, readings) ==
    ParseDurationStep(
        ParseDurationWindow(TimeParseDuration(durationStr), durationStr, readings),
        coldStage)

RECURSIVE TryFormats(_, _)
RECURSIVE FirstParsed(_, _, _)

\* one turn of the loop of parseAbsoluteTime: parsed is time.Parse's answer
\* for the i-th format
FirstParsed(parsed, i, timeStr) ==
    IF parsed.ok THEN parsed ELSE TryFormats(i + 1, timeStr)

\* the loop of parseAbsoluteTime from the i-th format on
TryFormats(i, timeStr) ==
    IF i > Len(timeFormats) THEN [ok |-> FALSE, t |-> 0]
    ELSE FirstParsed(TimeParse(timeFormats[i], timeStr), i, timeStr)

parseAbsoluteTime(timeStr) == TryFormats(1, timeStr)

\* the last step of parseTimeString: parsed is parseAbsoluteTime's answer
AbsoluteOrDefault(parsed, defaultTime) ==
    IF parsed.ok THEN parsed.t ELSE defaultTime

\* parseTimeString once time.ParseDuration returned duration
RelativeOrAbsolute(duration, timeStr, defaultTime, now) ==
    IF duration.ok THEN now + duration.d
    ELSE AbsoluteOrDefault(parseAbsoluteTime(timeStr), defaultTime)

\* parseTimeString comparing with the keyword case-sensitively
parseTimeString_CaseSensitive(timeStr, defaultTime, now) ==
    IF timeStr = <<>> THEN defaultTime
    ELSE IF timeStr = nowKeyword THEN now
    ELSE RelativeOrAbsolute(TimeParseDuration(timeStr), timeStr, defaultTime, now)

\* now: the reading of time.Now() taken by this call
parseTimeString(timeStr, defaultTime, now) ==
    IF timeStr = <<>> THEN defaultTime
    ELSE IF EqualFold(timeStr, nowKeyword) THEN now
    ELSE RelativeOrAbsolute(TimeParseDuration(timeStr), timeStr, defaultTime, now)

\* readings: the three successive readings of time.Now(), by
\* parseStartEndTimes and by the two calls of parseTimeString
parseStartEndTimes(start, end, readings) ==
    [startTime |-> parseTimeString(start, readings[1] - 30 * Minute, readings[2]),
     endTime |-> parseTimeString(end, readings[1], readings[3])]

\* the result of BuildDuration for a non-empty start or end
BuildDurationResult(w, stepEnum, cold) ==
    [startTime |-> w.startTime, endTime |-> w.endTime, step |-> stepEnum,
     ret |-> [Start |-> FormatTimeByStep(w.startTime, stepEnum),
              End |-> FormatTimeByStep(w.endTime, stepEnum),
              Step |-> stepEnum,
              ColdStage |-> IF cold THEN "true" ELSE "nil"]]

\* BuildDuration once parseStartEndTimes returned w; step is the caller's string
BuildDurationStep(w, step, cold) ==
    BuildDurationResult(w,
        IF step = "" \/ ~StepIsValid(step)
        THEN determineAdaptiveStep(w.startTime, w.endTime) ELSE step,
        cold)

\* fmt.Sprintf("-%dm", defaultDurationMinutes) after the default is applied
DefaultDurationStr(defaultDurationMinutes) ==
    <<"-">> \o SprintD(IF defaultDurationMinutes <= 0 THEN DefaultDuration
                       ELSE defaultDurationMinutes) \o <<"m">>

\* The returned api.Duration (ret) and the local variables startTime, endTime
\* and stepEnum of BuildDuration.
BuildDuration(start, end, step, cold, defaultDurationMinutes, readings) ==
    IF start # <<>> \/ end # <<>>
    THEN BuildDurationStep(parseStartEndTimes(start, end, readings), step, cold)
    ELSE ParseDuration(DefaultDurationStr(defaultDurationMinutes), cold, readings)

(***************************************************************************)
(* Inputs of the normalizer                                                *)
(***************************************************************************)
MaxDays == 7     \* numbers written in a duration string reach 24 * MaxDays + 23
MaxTick == 1     \* most seconds the clock advances between two readings

Pad2(n) == IF n < 10 THEN <<"0">> \o Dec(n) ELSE Dec(n)

DateStr(y, m, d) == Dec(y) \o <<"-">> \o Pad2(m) \o <<"-">> \o Pad2(d)

Signs == {<<>>, <<"-">>, <<"+">>}
Numbers == {<<>>} \cup {Dec(24 * a + b) : a \in 0..MaxDays, b \in {0, 1, 23}}
Junk == {<<>>, <<"x">>}
Suffixes == {<<>>, <<"s">>, <<"m">>, <<"h">>, <<"H">>, <<"d">>, <<"D">>, <<"x">>}

DurationStrings ==
    {sg \o nm \o jk \o sf : sg \in Signs, nm \in Numbers, jk \in Junk, sf \in Suffixes}
    \cup {<<"1", "h", "3", "0", "m">>, <<"-", "1", "h", "3", "0", "m">>,
          <<"1", ".", "5", "h">>, <<"-", "1", ".", "5", "h">>,
          <<" ", "3", "d">>, <<" ", "3", "H">>, <<"n", "o", "w">>,
          <<"1", "6", "8", "h", "1", "s">>, <<"-", "2", "3", "h", "6", "0", "m">>}

\* 2025-06-15 00:00:00 and 2025-06-15 15:06:40 UTC
Nows == {1749945600, 1750000000}

Readings(k) ==
    IF k = 2 THEN {<<n, n + a>> : n \in Nows, a \in 0..MaxTick}
    ELSE {<<n, n + a, n + a + b>> : n \in Nows, a \in 0..MaxTick, b \in 0..MaxTick}

TimeStrings ==
    {<<>>, <<"n", "o", "w">>, <<"N", "o", "W">>, <<"7", "d">>,
     <<"-", "1", "h">>, <<"-", "1", "6", "8", "h">>, <<"1", "h">>,
     DateStr(2025, 6, 15) \o <<" ", "1", "2", ":", "0", "0", ":", "0", "1">>,
     DateStr(2025, 6, 15) \o <<" ", "1", "4", ":", "3", "0">>,
     DateStr(2025, 6, 14) \o <<" ", "1", "2", "0", "0">>,
     DateStr(2025, 6, 15) \o <<" ", "9">>,
     DateStr(2025, 6, 8) \o <<" ", "1", "2", "0", "0", "0", "1">>,
     DateStr(2025, 6, 16),
     DateStr(2025, 2, 30),
     DateStr(2025, 6, 15) \o <<" ", "2", "4", ":", "0", "0", ":", "0", "0">>}

StepStrings == {"", StepHour, "hour"}

DefaultMinutes == {0, 90}

ParseDurationArgs == [durationStr : DurationStrings, coldStage : BOOLEAN]

BuildDurationArgs ==
    [start : TimeStrings, end : TimeStrings, step : StepStrings, cold : BOOLEAN,
     defaultDurationMinutes : DefaultMinutes]

(***************************************************************************)
(* The normalizer as a state machine: one call of ParseDuration or of      *)
(* BuildDuration on arguments and clock readings fixed at the start.       *)
(***************************************************************************)
InitDuration ==
    /\ pc = "call"
    /\ locals = None
    /\ result = None
    /\ \/ op = "ParseDuration" /\ args \in ParseDurationArgs /\ clock \in Readings(2)
       \/ op = "BuildDuration" /\ args \in BuildDurationArgs /\ clock \in Readings(3)

\* the function returns r: its locals and its value
Return(r) ==
    /\ locals' = [startTime |-> r.startTime, endTime |-> r.endTime, step |-> r.step]
    /\ result' = r.ret
    /\ pc' = "done"
    /\ UNCHANGED <<op, args, clock>>

CallParseDuration ==
    /\ pc = "call" /\ op = "ParseDuration"
    /\ Return(ParseDuration(args.durationStr, args.coldStage, clock))

CallBuildDuration ==
    /\ pc = "call" /\ op = "BuildDuration"
    /\ Return(BuildDuration(args.start, args.end, args.step, args.cold,
                            args.defaultDurationMinutes, clock))

NextDuration == CallParseDuration \/ CallBuildDuration

SpecDuration == InitDuration /\ [][NextDuration]_vars

(***************************************************************************)
(* Properties of the normalizer                                            *)
(***************************************************************************)
Returned(f) == pc = "done" /\ op = f

\* the readings of time.Now() the call may have taken
NowReadings == {clock[i] : i \in DOMAIN clock}

Granularity(step) ==
    CASE step = StepDay -> Day [] step = StepHour -> Hour
      [] step = StepMinute -> Minute [] OTHER -> 1

\* the formatted timestamp f denotes instant t up to the granularity of step
Shows(f, t, step) ==
    /\ f.at * Granularity(step) <= t
    /\ t < (f.at + 1) * Granularity(step)

\* the call returned the window [s, e] with the given step
IsWindow(s, e, step) ==
    /\ locals.startTime = s /\ locals.endTime = e
    /\ result.Step = step
    /\ Shows(result.Start, s, step) /\ Shows(result.End, e, step)

Signed(str) == TimeParseDuration(str)

\* the step the spec assigns to a span
StepBySpan(span) ==
    IF span >= 7 * Day THEN StepDay
    ELSE IF span >= Day THEN StepHour
    ELSE IF span >= Hour THEN StepMinute
    ELSE StepSecond

EndsIn(str, letters) == Len(str) > 1 /\ str[Len(str)] \in letters

\* a positive integer in decimal digits followed by d, D, h or H
IsLegacyToken(str) ==
    /\ EndsIn(str, {"d", "D", "h", "H"})
    /\ DigitRun(str) = Len(str) - 1
    /\ Atoi(Take(str, Len(str) - 1)) > 0

LegacyNumber(str) == Atoi(Take(str, Len(str) - 1))

\* Sscanf reads a positive integer before a final d, D, h or H
ScansPositive(str) ==
    /\ EndsIn(str, {"d", "D", "h", "H"})
    /\ SscanfD(Take(str, Len(str) - 1)).ok
    /\ SscanfD(Take(str, Len(str) - 1)).n > 0

C3_DefaultAlways ==
    (Returned("ParseDuration") /\ ~Signed(args.durationStr).ok
        /\ ~IsLegacyToken(args.durationStr)) =>
        \E now \in NowReadings : IsWindow(now - 7 * Day, now, StepDay)

\* C3 amended: a string that is not a signed duration and in which Sscanf
\* reads no positive integer before a final d, D, h or H gives
\* [now - 1 hour, now] with HOUR step when it ends in h or H (and is longer
\* than one character), and [now - 7 days, now] with DAY step otherwise.
C3_Default ==
    (Returned("ParseDuration") /\ ~Signed(args.durationStr).ok
        /\ ~ScansPositive(args.durationStr)) =>
        \E now \in NowReadings :
            IF EndsIn(args.durationStr, {"h", "H"})
            THEN IsWindow(now - Hour, now, StepHour)
            ELSE IsWindow(now - 7 * Day, now, StepDay)

C3_Witness ==
    /\ Returned("ParseDuration")
    /\ args.durationStr = <<"-", "1", "H">>
    /\ locals.endTime - locals.startTime = Hour
    /\ result.Step = StepHour

ExpectedBound(str, defaultTime, now) ==
    IF str = <<>> THEN defaultTime
    ELSE IF EqualFold(str, nowKeyword) THEN now
    ELSE IF Signed(str).ok THEN now + Signed(str).d
    ELSE IF \E i \in 1..Len(timeFormats) : TimeParse(timeFormats[i], str).ok
         THEN LET i == CHOOSE i \in 1..Len(timeFormats) : TimeParse(timeFormats[i], str).ok
              IN  TimeParse(timeFormats[i], str).t
    ELSE defaultTime

\* C5: with a non-empty start or end, BuildDuration resolves each bound on
\* its own: empty gives the default (now - 30 minutes for start, now for
\* end), "now" in any case gives now, a signed duration d gives now + d, an
\* absolute timestamp gives that instant, anything else gives the default.
C5_Bounds ==
    (Returned("BuildDuration") /\ (args.start # <<>> \/ args.end # <<>>)) =>
        /\ \E now \in NowReadings, at \in NowReadings :
               locals.startTime = ExpectedBound(args.start, now - 30 * Minute, at)
        /\ \E now \in NowReadings, at \in NowReadings :
               locals.endTime = ExpectedBound(args.end, now, at)
        /\ Shows(result.Start, locals.startTime, result.Step)
        /\ Shows(result.End, locals.endTime, result.Step)
        /\ args.start = DateStr(2025, 6, 14) \o <<" ", "1", "2", "0", "0">> =>
               locals.startTime = 1749902400
        /\ args.end = DateStr(2025, 6, 15) \o <<" ", "9">> =>
               locals.endTime = 1749978000

C5_Witness ==
    /\ Returned("BuildDuration")
    /\ args.start = <<"N", "o", "W">>
    /\ args.end = DateStr(2025, 6, 16)
    /\ locals.startTime \in NowReadings
    /\ locals.endTime = 1750032000

\* C6: the returned Duration carries the cold-storage flag, set to true, when
\* the caller passed cold = true, and no flag at all when it passed false.
C6_ColdFlag ==
    pc = "done" /\ op \in {"ParseDuration", "BuildDuration"} =>
        result.ColdStage =
            IF (IF op = "ParseDuration" THEN args.coldStage ELSE args.cold)
            THEN "true" ELSE "nil"

C6_Witness ==
    /\ Returned("BuildDuration")
    /\ args.start = <<>> /\ args.end = <<>> /\ ~args.cold
    /\ result.ColdStage = "nil"

(***************************************************************************)
(* The trace view reshaper (internal/tools/trace.go).                      *)
(* A pointer is a sequence: <<>> is nil, <<v>> points to v.                *)
(***************************************************************************)
ViewFull == "full"
ViewSummary == "summary"
ViewErrorsOnly == "errors_only"

ErrTraceNotFound == "trace with ID '%s' not found"
ErrInvalidView == "invalid view '%s', available views: %s, %s, %s"
ErrNoTracesFound == "no traces found matching the query criteria"

\* mcp.NewToolResultError and mcp.NewToolResultText; json.Marshal keeps the
\* structure of the value it prints
ToolResultError(msg) == [kind |-> "error", msg |-> msg]

\* fmt.Sprintf and fmt.Errorf: the text is the format with its verbs replaced
\* by the operands in order, kept as the format followed by the operands
Sprintf(format, operands) == <<format>> \o operands

\* errors.New and a text without operands
ErrorsNew(text) == <<text>>
ToolResultText(payload) == [kind |-> "text", payload |-> payload]
Panicked == [kind |-> "panic"]

\* p != nil && *p
IsTrue(p) == p # <<>> /\ p[1]

\* the strings of the model in the byte order sort.Strings uses
Lexicon == <<"", "/x", "/y", "a", "b">>

Rank(str) == CHOOSE i \in 1..Len(Lexicon) : Lexicon[i] = str

RECURSIVE SortStrings(_)
\* the keys of a map appended in any order and then sorted by sort.Strings
SortStrings(S) ==
    IF S = {} THEN <<>>
    ELSE LET least == CHOOSE x \in S : \A y \in S : Rank(x) <= Rank(y)
         IN  <<least>> \o SortStrings(S \ {least})

\* the orders in which ranging over a map with keys S may append them
MapOrders(S) ==
    {q \in [1..Cardinality(S) -> S] : \A i, j \in 1..Cardinality(S) : q[i] = q[j] => i = j}

\* the root span test reading the span ids the wrong way round
IsRootSpan_Swapped(span) == span.SpanID = -1 /\ span.ParentSpanID = 0

\* the heuristic of generateTraceSummary for the root span
IsRootSpan(span) == span.SpanID = 0 /\ span.ParentSpanID = -1

\* The loop body of generateTraceSummary for a non-nil span; acc is the
\* summary under construction together with the local map services.
SummarizeSpan(acc, span) ==
    [acc EXCEPT
        !.services = @ \cup {span.ServiceCode},
        !.ErrorCount = IF IsTrue(span.IsError) THEN @ + 1 ELSE @,
        !.RootEndpoint = IF IsRootSpan(span) /\ span.EndpointName # <<>>
                         THEN span.EndpointName[1] ELSE @,
        !.StartTime = IF IsRootSpan(span) THEN span.StartTime ELSE @,
        !.EndTime = IF IsRootSpan(span) THEN span.EndTime ELSE @,
        !.TotalDuration = IF IsRootSpan(span) /\ span.StartTime > 0 /\ span.EndTime > 0
                          THEN span.EndTime - span.StartTime ELSE @]

RECURSIVE SummarizeSpans(_, _, _)
\* the loop of generateTraceSummary from the i-th span on
SummarizeSpans(acc, spans, i) ==
    IF i > Len(spans) THEN acc
    ELSE SummarizeSpans(IF spans[i] = <<>> THEN acc ELSE SummarizeSpan(acc, spans[i][1]),
                        spans, i + 1)

\* the end of generateTraceSummary: the TraceSummary
FinishTraceSummary(acc) ==
    [TraceID |-> acc.TraceID,
     TotalSpans |-> acc.TotalSpans,
     Services |-> SortStrings(acc.services),
     TotalDuration |-> acc.TotalDuration,
     ErrorCount |-> acc.ErrorCount,
     HasErrors |-> acc.ErrorCount > 0,
     RootEndpoint |-> acc.RootEndpoint,
     StartTime |-> acc.StartTime,
     EndTime |-> acc.EndTime]

generateTraceSummary(traceID, traceData) ==
    FinishTraceSummary(
        SummarizeSpans([TraceID |-> traceID, TotalSpans |-> Len(traceData.Spans),
                        services |-> {}, TotalDuration |-> 0, ErrorCount |-> 0,
                        RootEndpoint |-> "", StartTime |-> 0, EndTime |-> 0],
                       traceData.Spans, 1))

IsErrorSpan_AnyFlag(span) == span # <<>> /\ span[1].IsError # <<>>

IsErrorSpan(span) == span # <<>> /\ IsTrue(span[1].IsError)

filterErrorSpans(traceData) == SelectSeq(traceData.Spans, IsErrorSpan)

\* encoding/json writes a nil slice as null; a slice is nil until the first append
JsonSlice(xs) == [null |-> xs = <<>>, items |-> xs]

\* a slice field tagged omitempty is left out when it is empty
JsonOmitEmpty(xs) == [omitted |-> xs = <<>>, items |-> xs]

\* json.Marshal of a TraceSummary: the keys of its struct tags
MarshalTraceSummary(summary) ==
    [trace_id |-> summary.TraceID,
     total_spans |-> summary.TotalSpans,
     services |-> JsonSlice(summary.Services),
     total_duration_ms |-> summary.TotalDuration,
     error_count |-> summary.ErrorCount,
     has_errors |-> summary.HasErrors,
     root_endpoint |-> summary.RootEndpoint,
     start_time_ms |-> summary.StartTime,
     end_time_ms |-> summary.EndTime]

\* processTraceResult testing the view before the number of spans
processTraceResult_ViewFirst(traceID, traceData, view) ==
    IF view \notin {ViewSummary, ViewErrorsOnly, ViewFull}
    THEN ToolResultError(Sprintf(ErrInvalidView,
             <<view, ViewFull, ViewSummary, ViewErrorsOnly>>))
    ELSE IF Len(traceData.Spans) = 0
    THEN ToolResultError(Sprintf(ErrTraceNotFound, <<traceID>>))
    ELSE CASE view = ViewSummary ->
                ToolResultText(MarshalTraceSummary(generateTraceSummary(traceID, traceData)))
           [] view = ViewErrorsOnly -> ToolResultText(JsonSlice(filterErrorSpans(traceData)))
           [] OTHER -> ToolResultText(traceData)

\* the switch of processTraceResult and json.Marshal of the value chosen;
\* the full view hands the backend's own value through
processTraceResult(traceID, traceData, view) ==
    IF Len(traceData.Spans) = 0
    THEN ToolResultError(Sprintf(ErrTraceNotFound, <<traceID>>))
    ELSE CASE view = ViewSummary ->
                ToolResultText(MarshalTraceSummary(generateTraceSummary(traceID, traceData)))
           [] view = ViewErrorsOnly -> ToolResultText(JsonSlice(filterErrorSpans(traceData)))
           [] view = ViewFull -> ToolResultText(traceData)
           [] OTHER -> ToolResultError(Sprintf(ErrInvalidView,
                           <<view, ViewFull, ViewSummary, ViewErrorsOnly>>))

(***************************************************************************)
(* Trace lists: generateTracesSummary and filterErrorTraces                *)
(***************************************************************************)
RECURSIVE Join(_)
\* strings.Join(names, ", ") as the sequence of its pieces
Join(names) ==
    IF Len(names) <= 1 THEN names
    ELSE <<names[1], ", ">> \o Join(Tail(names))

\* createBasicTraceSummary; the caller makes sure TraceIds is not empty,
\* indexing an empty TraceIds panics
createBasicTraceSummary(traceItem, startTimeMs, duration, isError) ==
    [TraceID |-> traceItem.TraceIds[1],
     ServiceName |-> traceItem.SegmentID,
     EndpointName |-> Join(traceItem.EndpointNames),
     StartTime |-> startTimeMs,
     Duration |-> duration,
     IsError |-> isError,
     SpanCount |-> 0]

\* time.Time.UnixMilli of an instant counted in seconds
UnixMilli(t) == t * 1000

NonEmptyNames(names) == {names[i] : i \in {j \in 1..Len(names) : names[j] # ""}}

\* the tracking of the smallest start time in processTraceItem
TrackStart(minStartTime, startTimeMs) ==
    IF minStartTime = 0 \/ startTimeMs < minStartTime THEN startTimeMs ELSE minStartTime

\* the slow trace test of processTraceItem
IsSlow(duration, slowTraceThreshold) ==
    slowTraceThreshold > 0 /\ duration > slowTraceThreshold

\* processTraceItem on a non-nil item whose start time parsed to startTimeMs;
\* acc holds the counters of the summary and the locals of
\* generateTracesSummary that processTraceItem updates through pointers
CountItem(acc, traceItem, startTimeMs, slowTraceThreshold) ==
    IF (IsTrue(traceItem.IsError) \/ IsSlow(traceItem.Duration, slowTraceThreshold))
       /\ traceItem.TraceIds = <<>>
    THEN [acc EXCEPT !.panicked = TRUE]
    ELSE [acc EXCEPT
            !.minStartTime = TrackStart(@, startTimeMs),
            !.maxEndTime = IF startTimeMs + traceItem.Duration > @
                           THEN startTimeMs + traceItem.Duration ELSE @,
            !.durations = Append(@, traceItem.Duration),
            !.totalDuration = @ + traceItem.Duration,
            !.ErrorCount = IF IsTrue(traceItem.IsError) THEN @ + 1 ELSE @,
            !.errorTraces = IF IsTrue(traceItem.IsError)
                            THEN Append(@, createBasicTraceSummary(
                                     traceItem, startTimeMs, traceItem.Duration, TRUE))
                            ELSE @,
            !.SuccessCount = IF IsTrue(traceItem.IsError) THEN @ ELSE @ + 1,
            !.slowTraces = IF IsSlow(traceItem.Duration, slowTraceThreshold)
                           THEN Append(@, createBasicTraceSummary(
                                    traceItem, startTimeMs, traceItem.Duration,
                                    IsTrue(traceItem.IsError)))
                           ELSE @,
            !.services = @ \cup {traceItem.SegmentID},
            !.endpoints = @ \cup NonEmptyNames(traceItem.EndpointNames)]

\* processTraceItem once time.Parse returned startTime
ParsedItem(acc, traceItem, startTime, slowTraceThreshold) ==
    IF ~startTime.ok THEN acc
    ELSE CountItem(acc, traceItem, UnixMilli(startTime.t), slowTraceThreshold)

\* traceItem is a pointer; after a panic nothing more is done
processTraceItem(acc, traceItem, slowTraceThreshold) ==
    IF acc.panicked \/ traceItem = <<>> THEN acc
    ELSE ParsedItem(acc, traceItem[1], TimeParse(TimeFormatFull, traceItem[1].Start),
                    slowTraceThreshold)

RECURSIVE ProcessItems(_, _, _, _)
\* the loop of generateTracesSummary from the i-th item on
ProcessItems(acc, items, i, slowTraceThreshold) ==
    IF i > Len(items) THEN acc
    ELSE ProcessItems(processTraceItem(acc, items[i], slowTraceThreshold),
                      items, i + 1, slowTraceThreshold)

RECURSIVE InsertAscending(_, _)
InsertAscending(sorted, x) ==
    IF sorted = <<>> THEN <<x>>
    ELSE IF x < sorted[1] THEN <<x>> \o sorted
    ELSE <<sorted[1]>> \o InsertAscending(Tail(sorted), x)

RECURSIVE SortAscending(_)
\* sort.Slice of integers with the comparison <
SortAscending(xs) ==
    IF xs = <<>> THEN <<>>
    ELSE InsertAscending(SortAscending(Tail(xs)), xs[1])

\* calculateStatistics after the sort; the float64 quotient is kept as the
\* fraction num / den
StatisticsOfSorted(sorted, totalDuration) ==
    [avgDuration |-> [num |-> totalDuration, den |-> Len(sorted)],
     minDuration |-> sorted[1],
     maxDuration |-> sorted[Len(sorted)]]

calculateStatistics(durations, totalDuration) ==
    IF Len(durations) = 0
    THEN [avgDuration |-> [num |-> 0, den |-> 1], minDuration |-> 0, maxDuration |-> 0]
    ELSE StatisticsOfSorted(SortAscending(durations), totalDuration)

\* The results sort.Slice may leave for the comparison Duration >: every
\* arrangement of xs by non-increasing Duration (the sort is not stable).
SortedByDurationDesc(xs) ==
    {[i \in 1..Len(xs) |-> xs[q[i]]] :
        q \in {r \in [1..Len(xs) -> 1..Len(xs)] :
                  /\ \A i, j \in 1..Len(xs) : r[i] = r[j] => i = j
                  /\ \A i \in 1..(Len(xs) - 1) : xs[r[i]].Duration >= xs[r[i + 1]].Duration}}

\* the TracesSummary built at the end of generateTracesSummary, for one
\* order of the map of endpoints and one outcome of each sort
TracesSummaryOf(acc, stats, endpoints, errorTraces, slowTraces) ==
    [TotalTraces |-> acc.TotalTraces,
     SuccessCount |-> acc.SuccessCount,
     ErrorCount |-> acc.ErrorCount,
     Services |-> SortStrings(acc.services),
     Endpoints |-> endpoints,
     AvgDuration |-> stats.avgDuration,
     MinDuration |-> stats.minDuration,
     MaxDuration |-> stats.maxDuration,
     TimeRange |-> [StartTime |-> acc.minStartTime,
                    EndTime |-> acc.maxEndTime,
                    Duration |-> acc.maxEndTime - acc.minStartTime],
     ErrorTraces |-> errorTraces,
     SlowTraces |-> slowTraces]

\* the values generateTracesSummary may return once the loop left acc
TracesSummaries(acc) ==
    {TracesSummaryOf(acc, calculateStatistics(acc.durations, acc.totalDuration), e, et, st) :
        e \in MapOrders(acc.endpoints),
        et \in SortedByDurationDesc(acc.errorTraces),
        st \in SortedByDurationDesc(acc.slowTraces)}

\* the state of generateTracesSummary after its loop
TracesLoop(traces, slowTraceThreshold) ==
    ProcessItems([TotalTraces |-> Len(traces.Traces), SuccessCount |-> 0, ErrorCount |-> 0,
                  services |-> {}, endpoints |-> {}, durations |-> <<>>,
                  errorTraces |-> <<>>, slowTraces |-> <<>>,
                  minStartTime |-> 0, maxEndTime |-> 0, totalDuration |-> 0,
                  panicked |-> FALSE],
                 traces.Traces, 1, slowTraceThreshold)

\* the loop body of filterErrorTraces once time.Parse returned startTime
FilterParsed(acc, traceItem, startTime) ==
    IF ~startTime.ok THEN acc
    ELSE IF traceItem.TraceIds = <<>> THEN [acc EXCEPT !.panicked = TRUE]
    ELSE [acc EXCEPT !.errorTraces =
             Append(@, createBasicTraceSummary(traceItem, UnixMilli(startTime.t),
                                               traceItem.Duration, TRUE))]

FilterItem(acc, traceItem) ==
    IF acc.panicked \/ traceItem = <<>> \/ ~IsTrue(traceItem[1].IsError) THEN acc
    ELSE FilterParsed(acc, traceItem[1], TimeParse(TimeFormatFull, traceItem[1].Start))

RECURSIVE FilterItems(_, _, _)
\* the loop of filterErrorTraces from the i-th item on
FilterItems(acc, items, i) ==
    IF i > Len(items) THEN acc
    ELSE FilterItems(FilterItem(acc, items[i]), items, i + 1)

\* the state of filterErrorTraces after its loop
FilterLoop(traces) ==
    FilterItems([errorTraces |-> <<>>, panicked |-> FALSE], traces.Traces, 1)

\* json.Marshal of a BasicTraceSummary
MarshalBasicTraceSummary(b) ==
    [trace_id |-> b.TraceID,
     service_name |-> b.ServiceName,
     endpoint_name |-> b.EndpointName,
     start_time_ms |-> b.StartTime,
     duration_ms |-> b.Duration,
     is_error |-> b.IsError,
     span_count |-> b.SpanCount]

MarshalBasicTraceSummaries(bs) == [i \in 1..Len(bs) |-> MarshalBasicTraceSummary(bs[i])]

\* json.Marshal of a TracesSummary
MarshalTracesSummary(summary) ==
    [total_traces |-> summary.TotalTraces,
     success_count |-> summary.SuccessCount,
     error_count |-> summary.ErrorCount,
     services |-> JsonSlice(summary.Services),
     endpoints |-> JsonSlice(summary.Endpoints),
     avg_duration_ms |-> summary.AvgDuration,
     min_duration_ms |-> summary.MinDuration,
     max_duration_ms |-> summary.MaxDuration,
     time_range |-> [start_time_ms |-> summary.TimeRange.StartTime,
                     end_time_ms |-> summary.TimeRange.EndTime,
                     duration_ms |-> summary.TimeRange.Duration],
     error_traces |-> JsonOmitEmpty(MarshalBasicTraceSummaries(summary.ErrorTraces)),
     slow_traces |-> JsonOmitEmpty(MarshalBasicTraceSummaries(summary.SlowTraces))]

\* what processTracesResult makes of generateTracesSummary after its loop
SummaryResults(acc) ==
    IF acc.panicked THEN {Panicked}
    ELSE {ToolResultText(MarshalTracesSummary(summary)) : summary \in TracesSummaries(acc)}

\* the values generateTracesSummary leads to: the list is never empty here
generateTracesSummary(traces, slowTraceThreshold) ==
    SummaryResults(TracesLoop(traces, slowTraceThreshold))

\* what processTracesResult makes of filterErrorTraces after its loop
FilterResults(acc) ==
    IF acc.panicked THEN {Panicked}
    ELSE {ToolResultText(JsonSlice(MarshalBasicTraceSummaries(errorTraces))) :
             errorTraces \in SortedByDurationDesc(acc.errorTraces)}

filterErrorTraces(traces) == FilterResults(FilterLoop(traces))

\* the results processTracesResult may give
processTracesResult(traces, view, slowTraceThreshold) ==
    IF Len(traces.Traces) = 0 THEN {ToolResultError(ErrorsNew(ErrNoTracesFound))}
    ELSE CASE view = ViewSummary -> generateTracesSummary(traces, slowTraceThreshold)
           [] view = ViewErrorsOnly -> filterErrorTraces(traces)
           [] view = ViewFull -> {ToolResultText(traces)}
           [] OTHER -> {ToolResultError(Sprintf(ErrInvalidView,
                            <<view, ViewFull, ViewSummary, ViewErrorsOnly>>))}

(***************************************************************************)
(* Backend answers the reshaper is run on                                  *)
(***************************************************************************)
MaxSpans == 2
MaxItems == 2

SeqsUpTo(S, n) == UNION {[1..k -> S] : k \in 0..n}

Views == {ViewFull, ViewSummary, ViewErrorsOnly, "bogus"}

SpanLabels ==
    {[ServiceCode |-> "a", IsError |-> <<FALSE>>, EndpointName |-> <<"/x">>],
     [ServiceCode |-> "b", IsError |-> <<TRUE>>, EndpointName |-> <<>>],
     [ServiceCode |-> "a", IsError |-> <<>>, EndpointName |-> <<"/y">>]}

SpanPlaces ==
    {[SpanID |-> 0, ParentSpanID |-> -1, StartTime |-> 10, EndTime |-> 30],
     [SpanID |-> 0, ParentSpanID |-> -1, StartTime |-> 0, EndTime |-> 15],
     [SpanID |-> 0, ParentSpanID |-> -1, StartTime |-> 20, EndTime |-> 50],
     [SpanID |-> 1, ParentSpanID |-> 0, StartTime |-> 12, EndTime |-> 20],
     [SpanID |-> 0, ParentSpanID |-> 0, StartTime |-> 5, EndTime |-> 9]}

\* a *api.Span: nil or a pointer to a span
Spans ==
    {<<>>} \cup
    {<<[SpanID |-> q.SpanID, ParentSpanID |-> q.ParentSpanID, ServiceCode |-> l.ServiceCode,
        EndpointName |-> l.EndpointName, StartTime |-> q.StartTime, EndTime |-> q.EndTime,
        IsError |-> l.IsError]>> : l \in SpanLabels, q \in SpanPlaces}

Midnight == <<" ", "0", "0", ":", "0", "0", ":", "0", "0">>

ItemTimes ==
    {[Start |-> DateStr(1970, 1, 1) \o Midnight, Duration |-> 500],
     [Start |-> DateStr(1970, 1, 1) \o <<" ", "0", "0", ":", "0", "0", ":", "0", "1">>,
      Duration |-> 1500],
     [Start |-> DateStr(1969, 12, 31) \o <<" ", "2", "3", ":", "5", "9", ":", "5", "9">>,
      Duration |-> 500],
     [Start |-> <<"1", "7", "0", "0", "0", "0", "0", "0", "0", "0", "0", "0", "0">>,
      Duration |-> 1500]}

ItemLabels ==
    {[SegmentID |-> "a", IsError |-> <<FALSE>>, EndpointNames |-> <<>>, TraceIds |-> <<"t1">>],
     [SegmentID |-> "b", IsError |-> <<TRUE>>, EndpointNames |-> <<"/x", "">>,
      TraceIds |-> <<"t2", "t3">>],
     [SegmentID |-> "a", IsError |-> <<>>, EndpointNames |-> <<"/y", "/x">>,
      TraceIds |-> <<"t3">>],
     [SegmentID |-> "b", IsError |-> <<TRUE>>, EndpointNames |-> <<"/y">>, TraceIds |-> <<>>]}

\* a *api.BasicTrace: nil or a pointer to an item
Items ==
    {<<>>} \cup
    {<<[SegmentID |-> l.SegmentID, EndpointNames |-> l.EndpointNames, Duration |-> t.Duration,
        Start |-> t.Start, IsError |-> l.IsError, TraceIds |-> l.TraceIds]>> :
        l \in ItemLabels, t \in ItemTimes}

Thresholds == {0, 500, 1000}

TraceArgs ==
    [traceID : {"t1"}, traceData : {[Spans |-> l] : l \in SeqsUpTo(Spans, MaxSpans)},
     view : Views]

TracesArgs ==
    [traces : {[Traces |-> l] : l \in SeqsUpTo(Items, MaxItems)},
     view : {ViewSummary}, slowTraceThreshold : Thresholds]
    \cup
    [traces : {[Traces |-> l] : l \in SeqsUpTo(Items, MaxItems)},
     view : Views \ {ViewSummary}, slowTraceThreshold : {0}]

(***************************************************************************)
(* The reshaper as a state machine: one call of processTraceResult or of   *)
(* processTracesResult on a backend answer fixed at the start.             *)
(***************************************************************************)
InitTrace ==
    /\ pc = "call"
    /\ locals = None
    /\ result = None
    /\ clock = <<>>
    /\ \/ op = "processTraceResult" /\ args \in TraceArgs
       \/ op = "processTracesResult" /\ args \in TracesArgs

CallProcessTraceResult ==
    /\ pc = "call" /\ op = "processTraceResult"
    /\ result' = processTraceResult(args.traceID, args.traceData, args.view)
    /\ pc' = "done"
    /\ UNCHANGED <<op, args, clock, locals>>

CallProcessTracesResult ==
    /\ pc = "call" /\ op = "processTracesResult"
    /\ result' \in processTracesResult(args.traces, args.view, args.slowTraceThreshold)
    /\ pc' = "done"
    /\ UNCHANGED <<op, args, clock, locals>>

\* the tool is invoked once more on the same backend answer; locals keeps the
\* result of the first invocation
CallProcessTracesResultAgain ==
    /\ pc = "done" /\ op = "processTracesResult"
    /\ locals' = result
    /\ result' \in processTracesResult(args.traces, args.view, args.slowTraceThreshold)
    /\ pc' = "again"
    /\ UNCHANGED <<op, args, clock>>

\* after the summary view the same backend result is asked for in the
\* errors_only view; locals keeps the summary
CallErrorsOnlyView ==
    /\ pc = "done" /\ args.view = ViewSummary /\ result.kind = "text"
    /\ locals' = result
    /\ result' \in (IF op = "processTraceResult"
                    THEN {processTraceResult(args.traceID, args.traceData, ViewErrorsOnly)}
                    ELSE processTracesResult(args.traces, ViewErrorsOnly,
                                             args.slowTraceThreshold))
    /\ pc' = "errors_only"
    /\ UNCHANGED <<op, args, clock>>

NextTrace ==
    \/ CallProcessTraceResult
    \/ CallProcessTracesResult
    \/ CallProcessTracesResultAgain
    \/ CallErrorsOnlyView

SpecTrace == InitTrace /\ [][NextTrace]_vars

(***************************************************************************)
(* Properties of the reshaper                                              *)
(***************************************************************************)
\* a JSON list as a sequence: null and a left-out field read as the empty list
ListOf(j) == j.items

Elements(list) == {list[i] : i \in DOMAIN list}

\* list holds the members of S once each in ascending byte order
IsSortedSet(list, S) ==
    /\ Elements(list) = S
    /\ \A i \in 1..(Len(list) - 1) : Rank(list[i]) < Rank(list[i + 1])

\* the summary view of a single trace returned a summary
Summarized ==
    /\ Returned("processTraceResult")
    /\ args.view = ViewSummary
    /\ result.kind = "text"

PresentSpans == {i \in DOMAIN args.traceData.Spans : args.traceData.Spans[i] # <<>>}

SpanAt(i) == args.traceData.Spans[i][1]

RootSpans == {i \in PresentSpans : SpanAt(i).SpanID = 0 /\ SpanAt(i).ParentSpanID = -1}

\* the counts, the services and the error flag of the summary of a single trace
SummaryCounts ==
    /\ result.payload.total_spans = Len(args.traceData.Spans)
    /\ IsSortedSet(ListOf(result.payload.services),
                   {SpanAt(i).ServiceCode : i \in PresentSpans})
    /\ result.payload.error_count =
           Cardinality({i \in PresentSpans : SpanAt(i).IsError = <<TRUE>>})
    /\ result.payload.has_errors = (result.payload.error_count > 0)

\* C7 as stated: the summary view of a non-empty single trace reports
\* total_spans = the number of spans, services = the sorted duplicate-free set
\* of service codes, error_count = the number of spans flagged as error with
\* has_errors true exactly when it is positive, and start time, end time and
\* total duration = end - start of the span with span-id 0 and
\* parent-span-id -1.
C7_SummaryAlways ==
    Summarized =>
        /\ SummaryCounts
        /\ \A r \in RootSpans : RootSpans = {r} =>
              /\ result.payload.start_time_ms = SpanAt(r).StartTime
              /\ result.payload.end_time_ms = SpanAt(r).EndTime
              /\ result.payload.total_duration_ms = SpanAt(r).EndTime - SpanAt(r).StartTime

\* C7 amended: the counts, services and error flag are as stated (total_spans
\* counts nil spans too, services and error_count range over the spans
\* present); when exactly one span has span-id 0 and parent-span-id -1, start
\* and end time are its start and end time and the total duration is
\* end - start if both are greater than 0 and 0 otherwise; when no span has,
\* all three are 0.
C7_Summary ==
    Summarized =>
        /\ SummaryCounts
        /\ \A r \in RootSpans : RootSpans = {r} =>
              /\ result.payload.start_time_ms = SpanAt(r).StartTime
              /\ result.payload.end_time_ms = SpanAt(r).EndTime
              /\ result.payload.total_duration_ms =
                     IF SpanAt(r).StartTime > 0 /\ SpanAt(r).EndTime > 0
                     THEN SpanAt(r).EndTime - SpanAt(r).StartTime ELSE 0
        /\ RootSpans = {} =>
              /\ result.payload.start_time_ms = 0
              /\ result.payload.end_time_ms = 0
              /\ result.payload.total_duration_ms = 0

\* a summary of two spans of services b and a, one of them flagged, the other
\* the only root span, which started at 10 and ended at 30
C7_Witness ==
    /\ Summarized
    /\ Cardinality(RootSpans) = 1
    /\ result.payload.total_spans = 2
    /\ result.payload.services = JsonSlice(<<"a", "b">>)
    /\ args.traceData.Spans[1] # <<>> /\ SpanAt(1).ServiceCode = "b"
    /\ result.payload.error_count = 1
    /\ result.payload.has_errors
    /\ result.payload.start_time_ms = 10
    /\ result.payload.total_duration_ms = 20

\* the summary view of a trace list returned a summary
ListSummarized ==
    /\ Returned("processTracesResult")
    /\ args.view = ViewSummary
    /\ result.kind = "text"

PresentItems == {i \in DOMAIN args.traces.Traces : args.traces.Traces[i] # <<>>}

ItemAt(i) == args.traces.Traces[i][1]

FlaggedItems == {i \in PresentItems : ItemAt(i).IsError = <<TRUE>>}

Least(S) == CHOOSE x \in S : \A y \in S : x <= y

RECURSIVE DurationSum(_)
\* the sum of the durations of the items at the places S
DurationSum(S) ==
    IF S = {} THEN 0
    ELSE DurationSum(S \ {Least(S)}) + args.traces.Traces[Least(S)][1].Duration

Greatest(S) == CHOOSE x \in S : \A y \in S : x >= y

ItemDuration(i) == ItemAt(i).Duration

\* C8 as stated: the summary view of a trace list reports total_traces = the
\* number of items, success_count and error_count = the numbers of items not
\* flagged and flagged as error, which sum to total_traces, services and
\* endpoints = the unions over all items without empty endpoint names, and
\* min, max and avg duration = the minimum, maximum and mean of the items'
\* durations.
C8_ListSummary ==
    ListSummarized /\ PresentItems = DOMAIN args.traces.Traces =>
        /\ result.payload.total_traces = Len(args.traces.Traces)
        /\ result.payload.error_count = Cardinality(FlaggedItems)
        /\ result.payload.success_count + result.payload.error_count
               = result.payload.total_traces
        /\ Elements(ListOf(result.payload.services))
               = {ItemAt(i).SegmentID : i \in PresentItems}
        /\ Elements(ListOf(result.payload.endpoints))
               = UNION {Elements(ItemAt(i).EndpointNames) : i \in PresentItems} \ {""}
        /\ PresentItems # {} =>
              /\ result.payload.min_duration_ms = Least({ItemDuration(i) : i \in PresentItems})
              /\ result.payload.max_duration_ms
                     = Greatest({ItemDuration(i) : i \in PresentItems})
              /\ result.payload.avg_duration_ms.num * Cardinality(PresentItems)
                     = DurationSum(PresentItems) * result.payload.avg_duration_ms.den

StartOf(i) == TimeParse(TimeFormatFull, ItemAt(i).Start)

StartMs(i) == StartOf(i).t * 1000

EndMs(i) == StartMs(i) + ItemAt(i).Duration

AllParseable ==
    /\ PresentItems = DOMAIN args.traces.Traces
    /\ \A i \in PresentItems : StartOf(i).ok

\* C9 as stated: in the summary of a trace list whose items all have parseable
\* start times, whatever these are, time_range.start is the smallest item
\* start, time_range.end the largest item start + duration, and
\* time_range.duration = end - start.
C9_TimeRange ==
    ListSummarized /\ AllParseable =>
        /\ result.payload.time_range.start_time_ms = Least({StartMs(i) : i \in PresentItems})
        /\ result.payload.time_range.end_time_ms = Greatest({EndMs(i) : i \in PresentItems})
        /\ result.payload.time_range.duration_ms
               = result.payload.time_range.end_time_ms
                 - result.payload.time_range.start_time_ms

SlowItems == {i \in PresentItems : ItemDuration(i) > args.slowTraceThreshold}

\* list pairs off with the items of S: same trace id, duration and flag
HoldsExactly(list, S) ==
    \E q \in [1..Len(list) -> S] :
        /\ \A i \in S : \E k \in 1..Len(list) : q[k] = i
        /\ \A k, l \in 1..Len(list) : q[k] = q[l] => k = l
        /\ \A k \in 1..Len(list) :
              /\ ItemAt(q[k]).TraceIds # <<>>
              /\ list[k].trace_id = ItemAt(q[k]).TraceIds[1]
              /\ list[k].duration_ms = ItemDuration(q[k])
              /\ list[k].is_error = (q[k] \in FlaggedItems)

NonIncreasing(list) ==
    \A k \in 1..(Len(list) - 1) : list[k].duration_ms >= list[k + 1].duration_ms

\* C10 as stated: in the summary of a trace list slow_traces is non-empty only
\* when a threshold greater than 0 was supplied and then holds exactly the
\* items whose duration is strictly greater than the threshold, error_traces
\* holds exactly the items flagged as error, and both lists are ordered by
\* non-increasing duration.
C10_SlowAndErrorLists ==
    ListSummarized /\ PresentItems = DOMAIN args.traces.Traces =>
        /\ ListOf(result.payload.slow_traces) # <<>> => args.slowTraceThreshold > 0
        /\ args.slowTraceThreshold > 0 =>
               HoldsExactly(ListOf(result.payload.slow_traces), SlowItems)
        /\ HoldsExactly(ListOf(result.payload.error_traces), FlaggedItems)
        /\ NonIncreasing(ListOf(result.payload.slow_traces))
        /\ NonIncreasing(ListOf(result.payload.error_traces))

\* the summary view of a trace list was run twice on the same list and threshold
SummarizedTwice ==
    /\ pc = "again" /\ op = "processTracesResult"
    /\ args.view = ViewSummary
    /\ locals.kind = "text" /\ result.kind = "text"

IsSorted(list) == \A i \in 1..(Len(list) - 1) : Rank(list[i]) <= Rank(list[i + 1])

\* C11 as stated: running generateTracesSummary again on the same list and
\* threshold yields identical aggregate counts, identical min, avg and max
\* duration, and identical services and endpoints lists, each of the two
\* lists being in sorted order.
C11_Idempotent ==
    SummarizedTwice =>
        /\ result.payload.total_traces = locals.payload.total_traces
        /\ result.payload.success_count = locals.payload.success_count
        /\ result.payload.error_count = locals.payload.error_count
        /\ result.payload.min_duration_ms = locals.payload.min_duration_ms
        /\ result.payload.avg_duration_ms = locals.payload.avg_duration_ms
        /\ result.payload.max_duration_ms = locals.payload.max_duration_ms
        /\ result.payload.services = locals.payload.services
        /\ result.payload.endpoints = locals.payload.endpoints
        /\ IsSorted(ListOf(result.payload.services))
        /\ IsSorted(ListOf(result.payload.endpoints))

\* the errors_only view of a trace list whose items are all present and carry
\* a trace id returned
ErrorsOnlyReturned ==
    /\ Returned("processTracesResult")
    /\ args.view = ViewErrorsOnly
    /\ PresentItems = DOMAIN args.traces.Traces
    /\ \A i \in PresentItems : ItemAt(i).TraceIds # <<>>

\* C12 as stated: for every trace list with at least one item flagged as
\* error the errors_only view returns exactly the items flagged as error,
\* each once, no item left out and no other item included, ordered by
\* non-increasing duration.
C12_ErrorsOnly ==
    ErrorsOnlyReturned /\ FlaggedItems # {} =>
        /\ result.kind = "text"
        /\ HoldsExactly(ListOf(result.payload), FlaggedItems)
        /\ NonIncreasing(ListOf(result.payload))

Await(request) == [kind |-> "await", request |-> request]

Done(results) == [kind |-> "return", results |-> results]

\* fmt.Errorf and fmt.Sprintf with an error as last operand: the format, the
\* other operands and the text of the error
Errorf(format, operands, err) == <<format>> \o operands \o err

NoError == <<>>

\* executeGraphQL on the outcome of the HTTP exchange: the error of client.Do,
\* a status other than 200, a body that does not decode, a non-empty errors
\* array (whether or not data came with it), or the decoded response
executeGraphQL(exchange) ==
    IF exchange.transport # NoError
    THEN [err |-> Errorf("failed to execute HTTP request: %w", <<>>, exchange.transport),
          data |-> None]
    ELSE IF exchange.status # 200
    THEN [err |-> Sprintf("HTTP request failed with status: %d, body: %s",
                          <<exchange.status, exchange.body>>),
          data |-> None]
    ELSE IF ~exchange.decodes
    THEN [err |-> Errorf("failed to decode GraphQL response: %w", <<>>,
                         <<"invalid character">>),
          data |-> None]
    ELSE IF Len(exchange.errors) > 0
    THEN [err |-> Sprintf("GraphQL errors: %s", Join(exchange.errors)), data |-> None]
    ELSE [err |-> NoError, data |-> exchange.data]

\* the duration variable of a request built by hand: the start, the end and
\* the step of the Duration; its ColdStage is not copied
DurationVariable(duration) ==
    [start |-> duration.Start, end |-> duration.End, step |-> duration.Step]

\* a call of the SkyWalking client library (trace.Trace, trace.Traces,
\* metrics.IntValues, metrics.SortMetrics, log.Logs): one GraphQL request, an
\* error for each failure of the exchange and the typed data otherwise
ClientCall(exchange) == executeGraphQL(exchange)

ErrMissingTraceID == "missing required parameter: trace_id"
ErrMissingDuration == "missing required parameter: duration"
ErrFailedToQueryTrace == "failed to query trace '%s': %v"
ErrFailedToQueryColdTrace == "failed to query cold trace '%s': %v"
ErrFailedToQueryTraces == "failed to query traces: %v"
ErrNoFilterCondition == "at least one filter condition must be provided"
ErrInvalidDurationRange == "invalid duration range: min_duration (%d) > max_duration (%d)"
ErrNegativePageSize == "page_size cannot be negative"
ErrNegativePageNum == "page_num cannot be negative"
ErrInvalidTraceState == "invalid trace_state '%s', available states: %s, %s, %s"
ErrInvalidQueryOrder == "invalid query_order '%s', available orders: %s, %s"
QueryOrderStartTime == "start_time"
QueryOrderDuration == "duration"
TraceStateSuccess == "success"
TraceStateError == "error"
TraceStateAll == "all"
DefaultTracePageSize == 20
DefaultPageSize == 15
DefaultPageNum == 1

\* validateTraceRequest and validateColdTraceRequest: nil or the error
validateTraceRequest(req) ==
    IF req.TraceID = "" THEN ErrorsNew(ErrMissingTraceID) ELSE NoError

validateColdTraceRequest_TraceIDOnly(req) ==
    IF req.TraceID = "" THEN ErrorsNew(ErrMissingTraceID) ELSE NoError

validateColdTraceRequest(req) ==
    IF req.TraceID = "" THEN ErrorsNew(ErrMissingTraceID)
    ELSE IF req.Duration = <<>> THEN ErrorsNew(ErrMissingDuration)
    ELSE NoError

\* an empty view is replaced by the full view
ViewOrDefault(view) == IF view = "" THEN ViewFull ELSE view

\* searchTrace after trace.Trace answered
searchTraceAnswered(req, answer) ==
    IF answer.err # NoError
    THEN Done({ToolResultError(Errorf(ErrFailedToQueryTrace, <<req.TraceID>>, answer.err))})
    ELSE Done({processTraceResult(req.TraceID, answer.data, ViewOrDefault(req.View))})

\* searchTrace: get_trace_details
searchTrace(req, answers) ==
    IF validateTraceRequest(req) # NoError
    THEN Done({ToolResultError(validateTraceRequest(req))})
    ELSE IF answers = <<>>
    THEN Await([api |-> "trace.Trace", traceID |-> req.TraceID])
    ELSE searchTraceAnswered(req, ClientCall(answers[1]))

\* searchColdTrace after trace.ColdTrace answered
searchColdTraceAnswered(req, answer) ==
    IF answer.err # NoError
    THEN Done({ToolResultError(Errorf(ErrFailedToQueryColdTrace, <<req.TraceID>>,
                                      answer.err))})
    ELSE Done({processTraceResult(req.TraceID, answer.data, ViewOrDefault(req.View))})

\* searchColdTrace: get_cold_trace_details; duration is ParseDuration(req.Duration, true)
searchColdTrace(req, duration, answers) ==
    IF validateColdTraceRequest(req) # NoError
    THEN Done({ToolResultError(validateColdTraceRequest(req))})
    ELSE IF answers = <<>>
    THEN Await([api |-> "trace.ColdTrace", duration |-> duration, traceID |-> req.TraceID])
    ELSE searchColdTraceAnswered(req, ClientCall(answers[1]))

validateTracesQueryRequest(req) ==
    IF /\ req.ServiceID = "" /\ req.ServiceInstanceID = "" /\ req.TraceID = ""
       /\ req.EndpointID = "" /\ req.Duration = <<>>
       /\ req.MinTraceDuration = 0 /\ req.MaxTraceDuration = 0
    THEN ErrorsNew(ErrNoFilterCondition)
    ELSE IF /\ req.MinTraceDuration > 0 /\ req.MaxTraceDuration > 0
            /\ req.MinTraceDuration > req.MaxTraceDuration
    THEN Sprintf(ErrInvalidDurationRange, <<req.MinTraceDuration, req.MaxTraceDuration>>)
    ELSE IF req.PageSize < 0 THEN ErrorsNew(ErrNegativePageSize)
    ELSE IF req.PageNum < 0 THEN ErrorsNew(ErrNegativePageNum)
    ELSE NoError

\* BuildPagination: a page number or size that is not positive gets the default
BuildPagination(pageNum, pageSize) ==
    [PageNum |-> IF pageNum <= 0 THEN DefaultPageNum ELSE pageNum,
     PageSize |-> IF pageSize <= 0 THEN DefaultPageSize ELSE pageSize]

\* setTraceState and setQueryOrder: the error, if any
setTraceState(req) ==
    IF req.TraceState \in {TraceStateSuccess, TraceStateError, TraceStateAll, ""}
    THEN NoError
    ELSE Sprintf(ErrInvalidTraceState,
                 <<req.TraceState, TraceStateSuccess, TraceStateError, TraceStateAll>>)

setQueryOrder(req) ==
    IF req.QueryOrder \in {QueryOrderStartTime, QueryOrderDuration, ""}
    THEN NoError
    ELSE Sprintf(ErrInvalidQueryOrder,
                 <<req.QueryOrder, QueryOrderStartTime, QueryOrderDuration>>)

setPagination(req) ==
    BuildPagination(req.PageNum, IF req.PageSize = 0 THEN DefaultTracePageSize ELSE req.PageSize)

buildQueryCondition_Untimed(req, duration) ==
    IF setTraceState(req) # NoError THEN [err |-> setTraceState(req)]
    ELSE IF setQueryOrder(req) # NoError THEN [err |-> setQueryOrder(req)]
    ELSE [err |-> NoError, condition |-> [TraceID |-> req.TraceID, QueryDuration |-> None]]

\* buildQueryCondition: the condition or the error; duration is what
\* setDuration computed, None when it set nothing
buildQueryCondition(req, duration) ==
    IF setTraceState(req) # NoError THEN [err |-> setTraceState(req)]
    ELSE IF setQueryOrder(req) # NoError THEN [err |-> setQueryOrder(req)]
    ELSE [err |-> NoError,
          condition |->
              [ServiceID |-> req.ServiceID, ServiceInstanceID |-> req.ServiceInstanceID,
               TraceID |-> req.TraceID, EndpointID |-> req.EndpointID,
               MinTraceDuration |-> IF req.MinTraceDuration > 0
                                    THEN <<req.MinTraceDuration>> ELSE <<>>,
               MaxTraceDuration |-> IF req.MaxTraceDuration > 0
                                    THEN <<req.MaxTraceDuration>> ELSE <<>>,
               Tags |-> req.Tags,
               QueryDuration |-> duration,
               TraceState |-> IF req.TraceState = "" THEN TraceStateAll ELSE req.TraceState,
               QueryOrder |-> IF req.QueryOrder = "" THEN QueryOrderStartTime
                              ELSE req.QueryOrder,
               Paging |-> setPagination(req)]]

\* searchTraces after trace.Traces answered
searchTracesAnswered(req, answer) ==
    IF answer.err # NoError
    THEN Done({ToolResultError(Errorf(ErrFailedToQueryTraces, <<>>, answer.err))})
    ELSE Done(processTracesResult(answer.data, ViewOrDefault(req.View),
                                  req.SlowTraceThreshold))

\* searchTraces once the condition is built
searchTracesBuilt(req, built, answers) ==
    IF built.err # NoError THEN Done({ToolResultError(built.err)})
    ELSE IF answers = <<>>
    THEN Await([api |-> "trace.Traces", condition |-> built.condition])
    ELSE searchTracesAnswered(req, ClientCall(answers[1]))

\* searchTraces: query_traces
searchTraces(req, duration, answers) ==
    IF validateTracesQueryRequest(req) # NoError
    THEN Done({ToolResultError(validateTracesQueryRequest(req))})
    ELSE searchTracesBuilt(req, buildQueryCondition(req, duration), answers)

ErrMissingMetricsName == "missing required parameter: metrics_name"
ErrInvalidTopN == "top_n must be a positive integer"
ErrFailedToQueryMetrics == "failed to query metrics: %v"

\* the values for which api.Scope.IsValid and api.Order.IsValid hold
ValidScopes ==
    {"All", "Service", "ServiceInstance", "Endpoint", "Process", "ServiceRelation",
     "ServiceInstanceRelation", "EndpointRelation", "ProcessRelation"}

ValidOrders == {"ASC", "DES"}

validateSingleMetricsRequest(req) ==
    IF req.MetricsName = "" THEN ErrorsNew(ErrMissingMetricsName) ELSE NoError

\* buildMetricsCondition: the scope and the names that are not empty become
\* pointers (the service name stands for all eight names, treated alike)
buildMetricsCondition(req) ==
    [Name |-> req.MetricsName,
     Entity |-> [Scope |-> IF req.Scope # "" THEN <<req.Scope>> ELSE <<>>,
                 ServiceName |-> IF req.ServiceName # "" THEN <<req.ServiceName>> ELSE <<>>]]

\* querySingleMetrics after metrics.IntValues answered
querySingleMetricsAnswered(answer) ==
    IF answer.err # NoError
    THEN Done({ToolResultError(Errorf(ErrFailedToQueryMetrics, <<>>, answer.err))})
    ELSE Done({ToolResultText([value |-> answer.data.value])})

\* querySingleMetrics: query_single_metrics
querySingleMetrics(req, duration, answers) ==
    IF validateSingleMetricsRequest(req) # NoError
    THEN Done({ToolResultError(validateSingleMetricsRequest(req))})
    ELSE IF answers = <<>>
    THEN Await([api |-> "metrics.IntValues", condition |-> buildMetricsCondition(req),
                duration |-> duration])
    ELSE querySingleMetricsAnswered(ClientCall(answers[1]))

\* the top_n validateTopNMetricsRequest leaves in the request
TopNOrDefault(topN) == IF topN = 0 THEN 5 ELSE topN

validateTopNMetricsRequest(req) ==
    IF req.MetricsName = "" THEN ErrorsNew(ErrMissingMetricsName)
    ELSE IF TopNOrDefault(req.TopN) <= 0 THEN ErrorsNew(ErrInvalidTopN)
    ELSE NoError

\* strings.HasPrefix on the metric names used here
MetricPrefix == [service_cpm |-> "service", service_instance_cpm |-> "service_instance",
                 endpoint_cpm |-> "endpoint"]

ParseScopeInTop(metricsName) ==
    IF MetricPrefix[metricsName] = "service_instance" THEN "ServiceInstance"
    ELSE IF MetricPrefix[metricsName] = "endpoint" THEN "Endpoint"
    ELSE "Service"

\* strings.Split(id, ".") and base64 decoding on the service ids used here:
\* "c3Zj" is the base64 text of "svc", "c3Zj.1.x" has three parts and "!.1"
\* does not decode
ServiceIDParts == [e0 |-> <<"c3Zj", "1">>, e1 |-> <<"c3Zj", "1", "x">>, e2 |-> <<"!", "1">>]

ServiceIDKey(id) ==
    CASE id = "c3Zj.1" -> "e0" [] id = "c3Zj.1.x" -> "e1" [] id = "!.1" -> "e2"

Base64Decode(text) == IF text = "c3Zj" THEN [ok |-> TRUE, text |-> "svc"]
                      ELSE [ok |-> FALSE, text |-> ""]

\* ParseServiceID on a non-empty id, from its parts
ParseServiceIDParts(parts) ==
    IF Len(parts) # 2 \/ ~Base64Decode(parts[1]).ok
    THEN [name |-> "", isNormal |-> FALSE, ok |-> FALSE]
    ELSE [name |-> Base64Decode(parts[1]).text, isNormal |-> parts[2] = "1", ok |-> TRUE]

ParseServiceID(id) ==
    IF id = "" THEN [name |-> "", isNormal |-> FALSE, ok |-> TRUE]
    ELSE ParseServiceIDParts(ServiceIDParts[ServiceIDKey(id)])

\* buildTopNCondition given the parsed service id: a parse error leaves the
\* parent service empty, an order that is not valid leaves the order DES, and
\* any scope given is passed on
TopNConditionOf(req, parsed) ==
    [Name |-> req.MetricsName,
     ParentService |-> IF req.ServiceID # "" THEN (IF parsed.ok THEN parsed.name ELSE "")
                       ELSE req.ServiceName,
     Normal |-> req.ServiceID # "" /\ parsed.ok /\ parsed.isNormal,
     TopN |-> TopNOrDefault(req.TopN),
     Order |-> IF req.Order \in ValidOrders THEN req.Order ELSE "DES",
     Scope |-> IF req.Scope # "" THEN req.Scope ELSE ParseScopeInTop(req.MetricsName)]

buildTopNCondition(req) == TopNConditionOf(req, ParseServiceID(req.ServiceID))

\* queryTopNMetrics after metrics.SortMetrics answered
queryTopNMetricsAnswered(answer) ==
    IF answer.err # NoError
    THEN Done({ToolResultError(Errorf(ErrFailedToQueryMetrics, <<>>, answer.err))})
    ELSE Done({ToolResultText(answer.data)})

\* queryTopNMetrics: query_top_n_metrics
queryTopNMetrics(req, duration, answers) ==
    IF validateTopNMetricsRequest(req) # NoError
    THEN Done({ToolResultError(validateTopNMetricsRequest(req))})
    ELSE IF answers = <<>>
    THEN Await([api |-> "metrics.SortMetrics", condition |-> buildTopNCondition(req),
                duration |-> duration])
    ELSE queryTopNMetricsAnswered(ClientCall(answers[1]))

validateTopologyRequest(req) ==
    IF req.ServiceID = "" /\ req.ServiceName = ""
    THEN ErrorsNew("either service_id or service_name must be provided")
    ELSE NoError

TopologyQuery(topologyType) ==
    CASE topologyType = "Service" -> "getServiceTopology"
      [] topologyType = "Instance" -> "getServiceInstanceTopology"
      [] topologyType = "Endpoint" -> "getEndpointTopology"

\* queryTopology after executeGraphQL answered
queryTopologyAnswered(topologyType, answer) ==
    IF answer.err # NoError
    THEN Done({ToolResultError(Errorf("failed to query %s topology: %v",
                                      <<topologyType>>, answer.err))})
    ELSE Done({ToolResultText(answer.data)})

\* queryTopology, called by queryServiceTopology, queryInstanceTopology and
\* queryEndpointTopology with their topology type
queryTopology(req, topologyType, duration, answers) ==
    IF validateTopologyRequest(req) # NoError
    THEN Done({ToolResultError(validateTopologyRequest(req))})
    ELSE IF topologyType \notin {"Service", "Instance", "Endpoint"}
    THEN Done({ToolResultError(Sprintf("unknown topology type: %s", <<topologyType>>))})
    ELSE IF answers = <<>>
    THEN Await([api |-> TopologyQuery(topologyType),
                serviceId |-> IF req.ServiceID = "" THEN req.ServiceName ELSE req.ServiceID,
                duration |-> DurationVariable(duration)])
    ELSE queryTopologyAnswered(topologyType, executeGraphQL(answers[1]))

\* the loop of findServiceID over data["services"]: the id of the first
\* service of that name whose id is a string, "" when there is none
RECURSIVE FirstServiceID(_, _, _)
FirstServiceID(services, serviceName, i) ==
    IF i > Len(services) THEN ""
    ELSE IF services[i].name = serviceName /\ services[i].id # <<>> THEN services[i].id[1]
    ELSE FirstServiceID(services, serviceName, i + 1)

\* findServiceID after executeGraphQL answered; data that is not a map with
\* a list of services gives ""
findServiceID(serviceName, answer) ==
    IF answer.err # NoError THEN [id |-> "", err |-> answer.err]
    ELSE IF answer.data.shape # "services" THEN [id |-> "", err |-> NoError]
    ELSE [id |-> FirstServiceID(answer.data.services, serviceName, 1), err |-> NoError]

\* getServiceByName after its getService request was answered: the normal
\* flag or an error
getServiceByName(serviceName, answer) ==
    IF answer.err # NoError
    THEN [normal |-> <<>>, err |-> Errorf("failed to get service details: %w", <<>>, answer.err)]
    ELSE IF answer.data.shape = "service" /\ answer.data.normal # <<>>
    THEN [normal |-> answer.data.normal, err |-> NoError]
    ELSE [normal |-> <<>>,
          err |-> Sprintf("invalid service data returned for: %s", <<serviceName>>)]

\* getServiceInfo given what getServiceByName returned: an error counts as normal
getServiceInfo(byName) ==
    IF byName.err # NoError THEN TRUE
    ELSE IF byName.normal # <<>> THEN byName.normal[1]
    ELSE TRUE

LayerOrDefault(layer) == IF layer = "" THEN "GENERAL" ELSE layer

\* the entity of buildMQEEntity with the normal flag it settled on (nil: none)
MQEEntity(req, normal) ==
    [serviceName |-> req.ServiceName, normal |-> normal, destNormal |-> req.DestNormal]

\* executeMQEExpression after the execExpression request was answered
executeMQEExpressionAnswered(answer) ==
    IF answer.err # NoError
    THEN Done({ToolResultError(Errorf("failed to execute MQE expression: %v", <<>>,
                                      answer.err))})
    ELSE Done({ToolResultText(answer.data)})

\* executeMQEExpression from the end of buildMQEEntity on
executeMQEExpressionWith(req, entity, duration, answers) ==
    IF answers = <<>>
    THEN Await([api |-> "execExpression", expression |-> req.Expression, entity |-> entity,
                duration |-> DurationVariable(duration), debug |-> req.Debug])
    ELSE executeMQEExpressionAnswered(executeGraphQL(answers[1]))

\* buildMQEEntity inside getServiceByName, after findServiceID returned found
buildMQEEntityFound(req, found, duration, answers) ==
    IF found.err # NoError \/ found.id = ""
    THEN executeMQEExpressionWith(req, MQEEntity(req, <<TRUE>>), duration, Tail(answers))
    ELSE IF Len(answers) = 1
    THEN Await([api |-> "getService", serviceId |-> found.id])
    ELSE executeMQEExpressionWith(
             req,
             MQEEntity(req, <<getServiceInfo(getServiceByName(req.ServiceName,
                                                 executeGraphQL(answers[2])))>>),
             duration, Tail(Tail(answers)))

\* buildMQEEntity: a service name without a normal flag makes getServiceInfo
\* look the service up
buildMQEEntity(req, duration, answers) ==
    IF req.ServiceName = ""  \/ req.Normal # <<>>
    THEN executeMQEExpressionWith(req, MQEEntity(req, req.Normal), duration, answers)
    ELSE IF answers = <<>>
    THEN Await([api |-> "listServices", layer |-> LayerOrDefault(req.Layer)])
    ELSE buildMQEEntityFound(req, findServiceID(req.ServiceName, executeGraphQL(answers[1])),
                             duration, answers)

\* executeMQEExpression: execute_mqe_expression
executeMQEExpression(req, duration, answers) ==
    IF req.Expression = "" THEN Done({ToolResultError(ErrorsNew("expression is required"))})
    ELSE buildMQEEntity(req, duration, answers)

\* the end of listMQEMetrics, getMQEMetricsType, queryAlarms and queryEvents
\* alike: the error under the tool's format or the data
GraphQLAnswered(format, answer) ==
    IF answer.err # NoError THEN Done({ToolResultError(Errorf(format, <<>>, answer.err))})
    ELSE Done({ToolResultText(answer.data)})

\* listMQEMetrics: list_mqe_metrics
listMQEMetrics(req, answers) ==
    IF answers = <<>>
    THEN Await([api |-> "listMetrics",
                regex |-> IF req.Regex # "" THEN <<req.Regex>> ELSE <<>>])
    ELSE GraphQLAnswered("failed to list metrics: %v", executeGraphQL(answers[1]))

\* getMQEMetricsType: get_mqe_metric_type
getMQEMetricsType(req, answers) ==
    IF req.MetricName = ""
    THEN Done({ToolResultError(ErrorsNew("metric_name must be provided"))})
    ELSE IF answers = <<>> THEN Await([api |-> "typeOfMetrics", name |-> req.MetricName])
    ELSE GraphQLAnswered("failed to get metric type: %v", executeGraphQL(answers[1]))

\* buildLogQueryCondition; duration is BuildDuration of start, end, step and cold
buildLogQueryCondition(req, duration) ==
    [ServiceID |-> req.ServiceID, QueryDuration |-> duration,
     Paging |-> BuildPagination(req.PageNum, req.PageSize)]

\* queryLogs: query_logs
queryLogs(req, duration, answers) ==
    IF answers = <<>>
    THEN Await([api |-> "log.Logs", condition |-> buildLogQueryCondition(req, duration)])
    ELSE GraphQLAnswered("failed to query logs: %v", ClientCall(answers[1]))

\* the page size of queryAlarms and queryEvents
PageSizeOrDefault(pageSize) == IF pageSize = 0 THEN 20 ELSE pageSize

\* queryAlarms: query_alarms; a scope that is not valid is left out
queryAlarms(req, duration, answers) ==
    IF PageSizeOrDefault(req.PageSize) < 0
    THEN Done({ToolResultError(ErrorsNew("page_size cannot be negative"))})
    ELSE IF answers = <<>>
    THEN Await([api |-> "queryAlarms", duration |-> DurationVariable(duration),
                paging |-> BuildPagination(req.PageNum, PageSizeOrDefault(req.PageSize)),
                scope |-> IF req.Scope \in ValidScopes THEN <<req.Scope>> ELSE <<>>,
                keyword |-> IF req.Keyword # "" THEN <<req.Keyword>> ELSE <<>>])
    ELSE GraphQLAnswered("failed to query alarms: %v", executeGraphQL(answers[1]))

ValidLevels == {"Normal", "Warning", "Critical"}

\* executeGraphQLForEvent repeats executeGraphQL line by line
executeGraphQLForEvent(exchange) == executeGraphQL(exchange)

\* queryEvents: query_events; a level that is not valid is left out
queryEvents(req, duration, answers) ==
    IF PageSizeOrDefault(req.PageSize) < 0
    THEN Done({ToolResultError(ErrorsNew("page_size cannot be negative"))})
    ELSE IF answers = <<>>
    THEN Await([api |-> "queryEvents", duration |-> DurationVariable(duration),
                paging |-> BuildPagination(req.PageNum, PageSizeOrDefault(req.PageSize)),
                source |-> IF req.Source # "" THEN <<req.Source>> ELSE <<>>,
                level |-> IF req.Level \in ValidLevels THEN <<req.Level>> ELSE <<>>])
    ELSE GraphQLAnswered("failed to query events: %v", executeGraphQLForEvent(answers[1]))

(***************************************************************************)
(* The Duration a handler computes before it calls the backend             *)
(***************************************************************************)
UseParse(durationStr, cold) == [parse |-> TRUE, durationStr |-> durationStr, cold |-> cold]

UseBuild(start, end, step, cold, defaultDurationMinutes) ==
    [parse |-> FALSE, start |-> start, end |-> end, step |-> step, cold |-> cold,
     defaultDurationMinutes |-> defaultDurationMinutes]

NoDuration == [none |-> TRUE]

\* the common form: ParseDuration of the duration when there is one,
\* BuildDuration of start, end and step otherwise
DurationOrRange(req, step, cold, defaultDurationMinutes) ==
    IF req.Duration # <<>> THEN UseParse(req.Duration, cold)
    ELSE UseBuild(req.Start, req.End, step, cold, defaultDurationMinutes)

\* which of ParseDuration and BuildDuration each handler calls, and on what
DurationCall(tool, req) ==
    CASE tool = "get_trace_details" -> NoDuration
      [] tool = "get_cold_trace_details" -> UseParse(req.Duration, TRUE)
      [] tool = "query_traces" ->
            IF req.Duration # <<>> THEN UseParse(req.Duration, req.Cold)
            ELSE IF req.TraceID = "" THEN UseParse(DefaultTraceDuration, req.Cold)
            ELSE NoDuration
      [] tool = "query_single_metrics" -> DurationOrRange(req, req.Step, req.Cold, 0)
      [] tool = "query_top_n_metrics" ->
            IF req.Duration = <<>> /\ req.Start = <<>> /\ req.End = <<>>
            THEN UseParse(<<"3", "0", "m">>, req.Cold)
            ELSE DurationOrRange(req, req.Step, req.Cold, 0)
      [] tool \in {"get_service_topology", "get_instance_topology", "get_endpoint_topology"} ->
            IF req.Duration # <<>> THEN UseParse(req.Duration, FALSE)
            ELSE UseBuild(<<>>, <<>>, "", FALSE, DefaultDuration)
      [] tool = "execute_mqe_expression" ->
            DurationOrRange(req, req.Step, req.Cold, DefaultDuration)
      [] tool \in {"list_mqe_metrics", "get_mqe_metric_type"} -> NoDuration
      [] tool = "query_logs" ->
            UseBuild(req.Start, req.End, req.Step, req.Cold, DefaultDuration)
      [] tool \in {"query_alarms", "query_events"} ->
            DurationOrRange(req, "", FALSE, DefaultDuration)

\* the api.Duration of the call
DurationOf(call, readings) ==
    IF call = NoDuration THEN NoDuration
    ELSE IF call.parse THEN ParseDuration(call.durationStr, call.cold, readings).ret
    ELSE BuildDuration(call.start, call.end, call.step, call.cold,
                       call.defaultDurationMinutes, readings).ret

\* the handler of each tool
Handler(tool, req, duration, answers) ==
    CASE tool = "get_trace_details" -> searchTrace(req, answers)
      [] tool = "get_cold_trace_details" -> searchColdTrace(req, duration, answers)
      [] tool = "query_traces" -> searchTraces(req, duration, answers)
      [] tool = "query_single_metrics" -> querySingleMetrics(req, duration, answers)
      [] tool = "query_top_n_metrics" -> queryTopNMetrics(req, duration, answers)
      [] tool = "get_service_topology" -> queryTopology(req, "Service", duration, answers)
      [] tool = "get_instance_topology" -> queryTopology(req, "Instance", duration, answers)
      [] tool = "get_endpoint_topology" -> queryTopology(req, "Endpoint", duration, answers)
      [] tool = "execute_mqe_expression" -> executeMQEExpression(req, duration, answers)
      [] tool = "list_mqe_metrics" -> listMQEMetrics(req, answers)
      [] tool = "get_mqe_metric_type" -> getMQEMetricsType(req, answers)
      [] tool = "query_logs" -> queryLogs(req, duration, answers)
      [] tool = "query_alarms" -> queryAlarms(req, duration, answers)
      [] tool = "query_events" -> queryEvents(req, duration, answers)

(***************************************************************************)
(* Requests to the tools and exchanges with the backend                    *)
(***************************************************************************)
Tools ==
    {"get_trace_details", "get_cold_trace_details", "query_traces", "query_single_metrics",
     "query_top_n_metrics", "get_service_topology", "get_instance_topology",
     "get_endpoint_topology", "execute_mqe_expression", "list_mqe_metrics",
     "get_mqe_metric_type", "query_logs", "query_alarms", "query_events"}

ViewValues == {"", ViewFull, ViewSummary, ViewErrorsOnly, "bogus"}

PastHour == <<"-", "1", "h">>

DurationValues == {<<>>, PastHour}

PageValues == {-1, 0, 2}

\* a query_traces request with no parameter given
NoTraceParameters ==
    [ServiceID |-> "", ServiceInstanceID |-> "", TraceID |-> "", EndpointID |-> "",
     Duration |-> <<>>, MinTraceDuration |-> 0, MaxTraceDuration |-> 0, TraceState |-> "",
     QueryOrder |-> "", PageSize |-> 0, PageNum |-> 0, View |-> "",
     SlowTraceThreshold |-> 0, Tags |-> <<>>, Cold |-> FALSE]

\* the examples of the description of query_traces
ExampleTraceRequests ==
    {[NoTraceParameters EXCEPT !.ServiceID = "Your_ApplicationName",
                               !.Duration = <<"1", "h">>, !.View = ViewSummary],
     [NoTraceParameters EXCEPT !.TraceState = TraceStateError, !.Duration = <<"7", "d">>,
                               !.View = ViewErrorsOnly],
     [NoTraceParameters EXCEPT !.MinTraceDuration = 1000, !.QueryOrder = "duration_desc",
                               !.View = ViewSummary],
     [NoTraceParameters EXCEPT !.SlowTraceThreshold = 5000, !.View = ViewSummary],
     [NoTraceParameters EXCEPT !.ServiceID = "Your_ApplicationName"],
     [NoTraceParameters EXCEPT !.Tags = <<[Key |-> "http.method", Value |-> "POST"],
                                          [Key |-> "http.status_code", Value |-> "500"]>>,
                               !.Duration = <<"1", "h">>]}

\* the values the description of query_traces lists for query_order
DocumentedQueryOrders ==
    {QueryOrderStartTime, QueryOrderDuration, "start_time_desc", "duration_desc"}

\* the examples, and a request for a service in each documented order
DocumentedTraceRequests ==
    ExampleTraceRequests
    \cup {[NoTraceParameters EXCEPT !.ServiceID = "Your_ApplicationName", !.QueryOrder = o] :
              o \in DocumentedQueryOrders}

ToolRequests(tool) ==
    CASE tool = "get_trace_details" -> [TraceID : {"", "t1"}, View : ViewValues]
      [] tool = "get_cold_trace_details" ->
            [TraceID : {"", "t1"}, Duration : DurationValues, View : ViewValues]
      [] tool = "query_traces" ->
            [ServiceID : {"", "id1"}, ServiceInstanceID : {""}, TraceID : {"", "t1"},
             EndpointID : {""}, Duration : DurationValues,
             MinTraceDuration : {0, 5}, MaxTraceDuration : {0, 3},
             TraceState : {"", TraceStateError, "bogus"},
             QueryOrder : {"", QueryOrderDuration, "bogus"},
             PageSize : PageValues, PageNum : PageValues,
             View : {"", ViewSummary, "bogus"}, SlowTraceThreshold : {0}, Tags : {<<>>},
             Cold : {FALSE}]
            \cup DocumentedTraceRequests
      [] tool = "query_single_metrics" ->
            [MetricsName : {"", "service_cpm"}, Scope : {"", "Service", "bogus"},
             ServiceName : {"", "svc"}, Duration : DurationValues, Start : {<<>>},
             End : {<<>>}, Step : {"", StepHour, "bogus"}, Cold : BOOLEAN]
      [] tool = "query_top_n_metrics" ->
            [MetricsName : {"", "service_cpm", "endpoint_cpm"}, TopN : {-1, 0, 3},
             Order : {"", "ASC", "bogus"}, Scope : {"", "Endpoint", "bogus"},
             ServiceID : {"", "c3Zj.1", "c3Zj.1.x", "!.1"}, ServiceName : {"", "svc"},
             Duration : DurationValues, Start : {<<>>}, End : {<<>>}, Step : {""},
             Cold : {FALSE}]
      [] tool \in {"get_service_topology", "get_instance_topology", "get_endpoint_topology"} ->
            [ServiceID : {"", "id1"}, ServiceName : {"", "svc"}, Duration : DurationValues]
      [] tool = "execute_mqe_expression" ->
            [Expression : {"", "service_cpm"}, ServiceName : {"", "svc"},
             Layer : {"", "MESH"}, Normal : {<<>>, <<TRUE>>, <<FALSE>>},
             DestNormal : {<<>>, <<TRUE>>}, Duration : DurationValues, Start : {<<>>},
             End : {<<>>}, Step : {"", "bogus"}, Cold : BOOLEAN, Debug : {FALSE}]
      [] tool = "list_mqe_metrics" -> [Regex : {"", "service_.*"}]
      [] tool = "get_mqe_metric_type" -> [MetricName : {"", "service_cpm"}]
      [] tool = "query_logs" ->
            [ServiceID : {"", "id1"}, Start : {<<>>, PastHour}, End : {<<>>},
             Step : {"", StepHour, "bogus"}, Cold : BOOLEAN,
             PageNum : PageValues, PageSize : PageValues]
      [] tool = "query_alarms" ->
            [Scope : {"", "Service", "bogus"}, Keyword : {"", "cpu"},
             Duration : DurationValues, Start : {<<>>}, End : {<<>>},
             PageSize : PageValues, PageNum : PageValues]
      [] tool = "query_events" ->
            [Source : {"", "svc"}, Level : {"", "Warning", "bogus"},
             Duration : DurationValues, Start : {<<>>}, End : {<<>>},
             PageSize : PageValues, PageNum : PageValues]

\* a trace of one span and a list of one item, as the backend may return them
OneSpan ==
    <<[SpanID |-> 0, ParentSpanID |-> -1, ServiceCode |-> "a", EndpointName |-> <<"/x">>,
       StartTime |-> 10, EndTime |-> 30, IsError |-> <<TRUE>>]>>

OneItem ==
    <<[SegmentID |-> "b", EndpointNames |-> <<"/x">>, Duration |-> 500,
       Start |-> DateStr(1970, 1, 1) \o <<" ", "0", "0", ":", "0", "0", ":", "0", "1">>,
       IsError |-> <<TRUE>>, TraceIds |-> <<"t2">>]>>

\* the data the backend may return to each request
DataOf(api) ==
    CASE api \in {"trace.Trace", "trace.ColdTrace"} -> {[Spans |-> <<>>], [Spans |-> <<OneSpan>>]}
      [] api = "trace.Traces" -> {[Traces |-> <<>>], [Traces |-> <<OneItem>>]}
      [] api = "listServices" ->
            {[shape |-> "services", services |-> <<[name |-> "svc", id |-> <<"id1">>]>>],
             [shape |-> "services", services |-> <<[name |-> "svc", id |-> <<>>]>>],
             [shape |-> "services", services |-> <<>>],
             [shape |-> "null"]}
      [] api = "getService" ->
            {[shape |-> "service", normal |-> <<FALSE>>],
             [shape |-> "service", normal |-> <<>>],
             [shape |-> "null"]}
      [] api = "metrics.IntValues" -> {[shape |-> "int", value |-> 7]}
      [] OTHER -> {[shape |-> "data"]}

Exchange(transport, status, decodes, errors, data) ==
    [transport |-> transport, status |-> status, body |-> "", decodes |-> decodes,
     errors |-> errors, data |-> data]

\* the outcomes of one HTTP exchange: the request fails on the way (a refused
\* connection, the 30 second timeout), the backend answers with another
\* status than 200, with a body that is not JSON, with GraphQL errors (with
\* or without data), or with data
Exchanges(api) ==
    {Exchange(<<"connection refused">>, 0, FALSE, <<>>, None),
     Exchange(NoError, 500, FALSE, <<>>, None),
     Exchange(NoError, 200, FALSE, <<>>, None),
     Exchange(NoError, 200, TRUE, <<"boom">>, None)}
    \cup {Exchange(NoError, 200, TRUE, <<"boom">>, d) : d \in DataOf(api)}
    \cup {Exchange(NoError, 200, TRUE, <<>>, d) : d \in DataOf(api)}

\* the readings of time.Now() during one invocation
ToolReadings == {<<n, n, n>> : n \in Nows}

(***************************************************************************)
(* The tools as a state machine: one invocation of one tool.  locals keeps *)
(* the requests sent to the backend and the exchanges that answered them.  *)
(***************************************************************************)
InitTools ==
    /\ pc = "call"
    /\ op \in Tools
    /\ args \in ToolRequests(op)
    /\ clock \in ToolReadings
    /\ locals = [sent |-> <<>>, answers |-> <<>>]
    /\ result = None

\* the handler runs on to step: its next backend request or its return
RunTo(step, answers) ==
    /\ locals' = [sent |-> IF step.kind = "await" THEN Append(locals.sent, step.request)
                           ELSE locals.sent,
                  answers |-> answers]
    /\ pc' = IF step.kind = "await" THEN "http" ELSE "done"
    /\ result' \in (IF step.kind = "await" THEN {result} ELSE step.results)
    /\ UNCHANGED <<op, args, clock>>

\* the MCP server calls the handler of the tool
CallTool ==
    /\ pc = "call"
    /\ RunTo(Handler(op, args, DurationOf(DurationCall(op, args), clock), <<>>), <<>>)

\* the request in flight ends in one of its outcomes and the handler goes on
BackendResponds ==
    /\ pc = "http"
    /\ \E exchange \in Exchanges(locals.sent[Len(locals.sent)].api) :
          RunTo(Handler(op, args, DurationOf(DurationCall(op, args), clock),
                        Append(locals.answers, exchange)),
                Append(locals.answers, exchange))

NextTools == CallTool \/ BackendResponds

SpecTools == InitTools /\ [][NextTools]_vars

(***************************************************************************)
(* Properties of the tools                                                 *)
(***************************************************************************)
ToolReturned == pc = "done"

TraceTools == {"get_trace_details", "get_cold_trace_details", "query_traces"}

InvalidView ==
    /\ op \in TraceTools
    /\ args.View \notin {"", ViewFull, ViewSummary, ViewErrorsOnly}

\* the message of an error result is the one that names the three views
NamesTheViews ==
    /\ result.kind = "error"
    /\ result.msg[1] = ErrInvalidView
    /\ SubSeq(result.msg, 3, 5) = <<ViewFull, ViewSummary, ViewErrorsOnly>>

\* C14: in get_trace_details, get_cold_trace_details and query_traces a view
\* other than full, summary and errors_only (an omitted view is full), in a
\* request whose other parameters were accepted, makes the tool return an
\* error whose message names the three valid views.
C14_InvalidView ==
    (ToolReturned /\ InvalidView /\ locals.sent # <<>>) => NamesTheViews

\* a request that failed is sent again later in the invocation
Reissued ==
    \E i \in DOMAIN locals.answers : \E j \in DOMAIN locals.sent :
        /\ i < j
        /\ executeGraphQL(locals.answers[i]).err # NoError
        /\ locals.sent[j] = locals.sent[i]

\* C15: an invocation of a tool sends at most one HTTP request to the
\* backend, and a request that failed is not sent again.
C15_SingleRequest == Len(locals.sent) <= 1 /\ ~Reissued

\* one of the exchanges of the invocation failed: in transport, by its
\* status, in decoding, or by a non-empty errors array
BackendFailed ==
    \E i \in DOMAIN locals.answers : executeGraphQL(locals.answers[i]).err # NoError

\* C16: when an exchange with the backend failed during the invocation (a
\* transport error, a status other than 200, a body that does not decode,
\* or a non-empty errors array, with or without data), the tool returns an
\* error result.
C16_FailureSurfaces == (ToolReturned /\ BackendFailed) => result.kind = "error"

TopologyTools == {"get_service_topology", "get_instance_topology", "get_endpoint_topology"}

\* a required parameter of the tool is missing from the request
MissingRequired ==
    CASE op = "get_trace_details" -> args.TraceID = ""
      [] op = "get_cold_trace_details" -> args.TraceID = "" \/ args.Duration = <<>>
      [] op \in {"query_single_metrics", "query_top_n_metrics"} -> args.MetricsName = ""
      [] op = "execute_mqe_expression" -> args.Expression = ""
      [] op \in TopologyTools -> args.ServiceID = "" /\ args.ServiceName = ""
      [] OTHER -> FALSE

\* the messages of the validation of required parameters
MissingMessages ==
    {ErrorsNew(ErrMissingTraceID), ErrorsNew(ErrMissingDuration),
     ErrorsNew(ErrMissingMetricsName), ErrorsNew("expression is required"),
     ErrorsNew("either service_id or service_name must be provided")}

\* C17: when a required parameter is missing (trace_id of both trace-detail
\* tools, duration of get_cold_trace_details, metrics_name of both metrics
\* tools, expression of execute_mqe_expression, both service_id and
\* service_name of a topology tool) no request is sent to the backend and
\* the tool returns the validation error.
C17_MissingRequired ==
    MissingRequired =>
        /\ locals.sent = <<>>
        /\ pc # "http"
        /\ ToolReturned => (result.kind = "error" /\ result.msg \in MissingMessages)

C17_Witness ==
    /\ ToolReturned
    /\ op = "get_cold_trace_details"
    /\ args.TraceID = "t1"
    /\ args.Duration = <<>>
    /\ locals.sent = <<>>
    /\ result = ToolResultError(ErrorsNew(ErrMissingDuration))

PaginatedTools == {"query_traces", "query_logs", "query_alarms", "query_events"}

NegativePage == op \in PaginatedTools /\ (args.PageSize < 0 \/ args.PageNum < 0)

\* C18: in query_traces, query_logs, query_alarms and query_events a negative
\* page_size or page_num sends no request to the backend and makes the tool
\* return an error.
C18_NegativePage ==
    NegativePage =>
        /\ locals.sent = <<>>
        /\ pc # "http"
        /\ ToolReturned => result.kind = "error"

StepTools == {"query_single_metrics", "query_top_n_metrics", "execute_mqe_expression",
              "query_logs"}

\* an enumerated parameter of the request has a value outside its enumeration
\* (a parameter left out is the empty string)
InvalidEnum ==
    \/ InvalidView
    \/ op = "query_traces" /\ args.TraceState \notin
                                  {"", TraceStateSuccess, TraceStateError, TraceStateAll}
    \/ op = "query_traces" /\ args.QueryOrder \notin
                                  {"", QueryOrderStartTime, QueryOrderDuration}
    \/ op = "query_top_n_metrics" /\ args.Order \notin ({""} \cup ValidOrders)
    \/ op = "query_top_n_metrics" /\ args.Scope \notin ({""} \cup ValidScopes)
    \/ op = "query_events" /\ args.Level \notin ({""} \cup ValidLevels)
    \/ op = "query_alarms" /\ args.Scope \notin ({""} \cup ValidScopes)
    \/ op \in StepTools /\ args.Step # "" /\ ~StepIsValid(args.Step)

\* C19: a value outside the enumeration of view, trace_state or query_order
\* of the trace tools, of order or scope of query_top_n_metrics, of level of
\* query_events, of scope of query_alarms, or of step makes the tool return
\* an error and no request is sent to the backend.
C19_InvalidEnum ==
    InvalidEnum =>
        /\ locals.sent = <<>>
        /\ pc # "http"
        /\ ToolReturned => result.kind = "error"

(***************************************************************************)
(* The trace-list reshaper on any list the backend may return              *)
(***************************************************************************)
ListReshaped ==
    /\ pc \in {"done", "again"}
    /\ op = "processTracesResult"
    /\ Len(args.traces.Traces) > 0
    /\ args.view \in {ViewSummary, ViewErrorsOnly}

\* C20: for every trace list the backend may return (items with an empty
\* trace-id list, nil items, starts that do not parse, any error flag) the
\* summary and errors_only views return a result and do not panic.
C20_NoPanic == ListReshaped => result # Panicked

(***************************************************************************)
(* The backend URL (FinalizeURL of internal/tools/common.go and its copy   *)
(* finalizeURL of internal/swmcp/server.go)                                *)
(***************************************************************************)
GraphqlSuffix == <<"/", "g", "r", "a", "p", "h", "q", "l">>

\* strings.HasSuffix
HasSuffix(s, suffix) ==
    Len(s) >= Len(suffix) /\ SubSeq(s, Len(s) - Len(suffix) + 1, Len(s)) = suffix

RECURSIVE TrimRight(_, _)
\* strings.TrimRight: every trailing character of the cutset is removed
TrimRight(s, cutset) ==
    IF s # <<>> /\ s[Len(s)] \in cutset THEN TrimRight(Take(s, Len(s) - 1), cutset) ELSE s

FinalizeURL_AlwaysAppends(urlStr) == TrimRight(urlStr, {"/"}) \o GraphqlSuffix

FinalizeURL(urlStr) ==
    IF ~HasSuffix(urlStr, GraphqlSuffix) THEN TrimRight(urlStr, {"/"}) \o GraphqlSuffix
    ELSE urlStr

\* the copy in the server package
finalizeURL(urlStr) ==
    IF ~HasSuffix(urlStr, GraphqlSuffix) THEN TrimRight(urlStr, {"/"}) \o GraphqlSuffix
    ELSE urlStr

MaxPieces == 3

\* URLs are put together from pieces that meet the suffix in every way: the
\* suffix itself, parts of it, slashes and other text
URLPieces ==
    {<<"/">>, GraphqlSuffix, <<"g", "r", "a", "p", "h", "q", "l">>, <<"/", "g", "r">>,
     <<"h", ":", "/", "/", "x">>}

RECURSIVE Concat(_)
Concat(pieces) == IF pieces = <<>> THEN <<>> ELSE pieces[1] \o Concat(Tail(pieces))

URLs == {Concat(pieces) : pieces \in SeqsUpTo(URLPieces, MaxPieces)}

InitURL ==
    /\ pc = "call"
    /\ op \in {"FinalizeURL", "finalizeURL"}
    /\ args \in [urlStr : URLs]
    /\ clock = <<>>
    /\ locals = None
    /\ result = None

CallFinalizeURL ==
    /\ pc = "call" /\ op = "FinalizeURL"
    /\ result' = [url |-> FinalizeURL(args.urlStr)]
    /\ pc' = "done"
    /\ UNCHANGED <<op, args, clock, locals>>

CallServerFinalizeURL ==
    /\ pc = "call" /\ op = "finalizeURL"
    /\ result' = [url |-> finalizeURL(args.urlStr)]
    /\ pc' = "done"
    /\ UNCHANGED <<op, args, clock, locals>>

\* the result is finalized once more (executeGraphQL finalizes the URL the
\* server has already finalized); locals keeps the first result
CallFinalizeURLAgain ==
    /\ pc = "done"
    /\ locals' = result
    /\ result' = [url |-> FinalizeURL(result.url)]
    /\ pc' = "again"
    /\ UNCHANGED <<op, args, clock>>

NextURL == CallFinalizeURL \/ CallServerFinalizeURL \/ CallFinalizeURLAgain

SpecURL == InitURL /\ [][NextURL]_vars

DefaultedTraces ==
    /\ op = "query_traces"
    /\ locals.sent # <<>>
    /\ args.Duration = <<>>
    /\ args.TraceID = ""

\* C22: query_traces called with neither duration nor trace_id (and another
\* filter) sends a query duration that covers the last hour: it starts one
\* hour before now and ends now.
C22_DefaultLastHour ==
    DefaultedTraces =>
        LET d == locals.sent[1].condition.QueryDuration
        IN  /\ Shows(d.Start, clock[1] - Hour, d.Step)
            /\ Shows(d.End, clock[1], d.Step)

\* a minus sign, a positive integer in decimal digits and the letter d
IsPastDays(str) ==
    /\ Len(str) > 2
    /\ str[1] = "-"
    /\ EndsIn(str, {"d"})
    /\ IsLegacyToken(Tail(str))

\* C23: for a duration "-Nd" with a positive integer N, ParseDuration
\* returns the past N days: the window starts N days before now and ends
\* now.
C23_PastDays ==
    (Returned("ParseDuration") /\ IsPastDays(args.durationStr)) =>
        \E now \in NowReadings :
            IsWindow(now - LegacyNumber(Tail(args.durationStr)) * Day, now, result.Step)

\* the expression requests the invocation sent
ExpressionRequests ==
    {i \in DOMAIN locals.sent : locals.sent[i].api = "execExpression"}

\* the duration variable of a request carries the cold-stage flag
CarriesColdStage(request) ==
    /\ "coldStage" \in DOMAIN request.duration
    /\ request.duration.coldStage = "true"

\* C24: the duration variable of the request execute_mqe_expression sends
\* carries the cold-stage flag when cold = true and does not carry it when
\* cold = false.
C24_ColdExpression ==
    op = "execute_mqe_expression" =>
        \A i \in ExpressionRequests : CarriesColdStage(locals.sent[i]) <=> args.Cold

\* C25: every example request of the description of query_traces, and a
\* request in each documented query_order (start_time, duration,
\* start_time_desc, duration_desc), passes validateTracesQueryRequest and
\* buildQueryCondition and is sent to the backend.
C25_DocumentedRequests ==
    (op = "query_traces" /\ args \in DocumentedTraceRequests /\ pc # "call") =>
        /\ validateTracesQueryRequest(args) = NoError
        /\ locals.sent # <<>>

\* the condition query_traces sent
SentCondition == locals.sent[1].condition

\* C26: the condition of every query_traces request that passed validation
\* carries a query duration or a trace id, and it is without a query
\* duration only when trace_id is set and duration is empty.
C26_DurationOrTraceID ==
    (op = "query_traces" /\ locals.sent # <<>>) =>
        /\ SentCondition.QueryDuration # NoDuration \/ SentCondition.TraceID # ""
        /\ SentCondition.QueryDuration = NoDuration <=>
               (args.TraceID # "" /\ args.Duration = <<>>)

\* a request by trace id only: its condition has the trace id and no duration
C26_Witness ==
    /\ op = "query_traces"
    /\ locals.sent # <<>>
    /\ args.TraceID = "t1" /\ args.Duration = <<>>
    /\ SentCondition.TraceID = "t1"
    /\ SentCondition.QueryDuration = NoDuration

\* C27: every Duration ParseDuration or BuildDuration returns, for all
\* duration strings and all pairs of start and end strings, has its start
\* not later than its end.
C27_StartBeforeEnd ==
    (Returned("ParseDuration") \/ Returned("BuildDuration")) =>
        result.Start.at <= result.End.at

(***************************************************************************)
(* The summary of a trace of several segments                              *)
(***************************************************************************)
\* the endpoint name of a span, empty when it has none
EndpointOf(i) == IF SpanAt(i).EndpointName = <<>> THEN "" ELSE SpanAt(i).EndpointName[1]

\* root_endpoint, start_time_ms and end_time_ms are those of the span at i
RootFieldsFrom(i) ==
    /\ result.payload.root_endpoint = EndpointOf(i)
    /\ result.payload.start_time_ms = SpanAt(i).StartTime
    /\ result.payload.end_time_ms = SpanAt(i).EndTime

\* C28: in the summary of a trace, also of one with several spans of
\* span-id 0 and parent-span-id -1, root_endpoint, start_time_ms and
\* end_time_ms come from one and the same span, and total_duration_ms is
\* end_time_ms - start_time_ms when both are greater than 0 and 0 otherwise.
C28_RootFields ==
    Summarized =>
        /\ RootSpans # {} => \E r \in RootSpans : RootFieldsFrom(r)
        /\ result.payload.total_duration_ms =
               IF result.payload.start_time_ms > 0 /\ result.payload.end_time_ms > 0
               THEN result.payload.end_time_ms - result.payload.start_time_ms
               ELSE 0

(***************************************************************************)
(* The summary view and the errors_only view of one backend result         *)
(***************************************************************************)
BothViews == pc = "errors_only" /\ result.kind = "text"

\* C29: for the same backend result the error count of the summary view is
\* the number of entries of the errors_only view, for the spans of a trace
\* and for the traces of a list, nil items and items whose start does not
\* parse included.
C29_ErrorCounts == BothViews => locals.payload.error_count = Len(ListOf(result.payload))

\* a list of a nil item and a flagged item whose start does not parse: both
\* views report no error
C29_Witness ==
    /\ BothViews
    /\ op = "processTracesResult"
    /\ Len(args.traces.Traces) = 2
    /\ args.traces.Traces[1] = <<>>
    /\ \E i \in FlaggedItems : ~StartOf(i).ok
    /\ locals.payload.error_count = 0
    /\ ListOf(result.payload) = <<>>

(***************************************************************************)
(* The stdio server (runStdioServer of internal/swmcp/stdio.go): the main  *)
(* goroutine, the listener goroutine it starts, and the delivery of        *)
(* SIGINT or SIGTERM, which cancels the context.  pc holds the position of *)
(* each goroutine; locals holds the error channel errC, the context and    *)
(* what the listener returned.                                             *)
(***************************************************************************)
ErrCCapacity == 1

\* what stdioServer.Listen may return: nil at the end of the input, the
\* error of a failed read, and the error of the context once it is cancelled
ListenResults(ctxDone) ==
    {NoError, <<"read |0: file already closed">>}
    \cup (IF ctxDone THEN {<<"context canceled">>} ELSE {})

\* the return of runStdioServer after the case of errC delivered err
ReturnOfListen(err) ==
    IF err # NoError THEN Errorf("error running server: %w", <<>>, err) ELSE NoError

InitStdio ==
    /\ op = "runStdioServer"
    /\ args \in [LogFileOpens : BOOLEAN, LogCommands : BOOLEAN]
    /\ pc = [main |-> "start", listener |-> "none"]
    /\ clock = <<>>
    /\ locals = [errC |-> <<>>, ctxDone |-> FALSE, signal |-> "none", listened |-> "no",
                 err |-> NoError]
    /\ result = None

\* signal.NotifyContext, NewStdioServer and initLogger: a logger that cannot
\* be opened ends the function
MainStart ==
    /\ pc.main = "start"
    /\ pc' = [pc EXCEPT !.main = IF args.LogFileOpens THEN "go" ELSE "returned"]
    /\ result' = IF args.LogFileOpens THEN result
                 ELSE Errorf("failed to initialize logger: %w", <<>>, <<"open: denied">>)
    /\ UNCHANGED <<op, args, clock, locals>>

\* errC is made and the listener goroutine started
MainGo ==
    /\ pc.main = "go"
    /\ pc' = [main |-> "stderr", listener |-> "listen"]
    /\ UNCHANGED <<op, args, clock, locals, result>>

\* the line written to os.Stderr
MainStderr ==
    /\ pc.main = "stderr"
    /\ pc' = [pc EXCEPT !.main = "select"]
    /\ UNCHANGED <<op, args, clock, locals, result>>

\* the select finds neither case ready: the goroutine parks on both channels
MainParks ==
    /\ pc.main = "select"
    /\ ~locals.ctxDone /\ locals.errC = <<>>
    /\ pc' = [pc EXCEPT !.main = "parked"]
    /\ UNCHANGED <<op, args, clock, locals, result>>

\* the select takes the case of ctx.Done(), which is ready
MainSelectsDone ==
    /\ pc.main = "select"
    /\ locals.ctxDone
    /\ result' = NoError
    /\ pc' = [pc EXCEPT !.main = "returned"]
    /\ UNCHANGED <<op, args, clock, locals>>

\* the select takes the case of errC, which is ready; when both cases are
\* ready the select takes either
MainSelectsErrC ==
    /\ pc.main = "select"
    /\ locals.errC # <<>>
    /\ result' = ReturnOfListen(Head(locals.errC))
    /\ locals' = [locals EXCEPT !.errC = Tail(@)]
    /\ pc' = [pc EXCEPT !.main = "returned"]
    /\ UNCHANGED <<op, args, clock>>

\* SIGINT or SIGTERM is delivered to the process while the context of
\* signal.NotifyContext is registered
SignalDelivered ==
    /\ pc.main \notin {"start", "returned"}
    /\ locals.signal = "none"
    /\ locals' = [locals EXCEPT !.signal = "delivered"]
    /\ UNCHANGED <<op, args, clock, pc, result>>

\* the goroutine of signal.NotifyContext cancels the context: ctx.Done() is
\* closed; a main goroutine parked in the select takes that case
ContextCancelled ==
    /\ locals.signal = "delivered"
    /\ ~locals.ctxDone
    /\ locals' = [locals EXCEPT !.ctxDone = TRUE]
    /\ pc' = [pc EXCEPT !.main = IF @ = "parked" THEN "returned" ELSE @]
    /\ result' = IF pc.main = "parked" THEN NoError ELSE result
    /\ UNCHANGED <<op, args, clock>>

\* stdioServer.Listen returns; listened tells whether the signal had been
\* delivered by then
ListenReturns ==
    /\ pc.listener = "listen"
    /\ \E err \in ListenResults(locals.ctxDone) :
          locals' = [locals EXCEPT
                        !.listened = IF locals.signal = "delivered" THEN "after" ELSE "before",
                        !.err = err]
    /\ pc' = [pc EXCEPT !.listener = "send"]
    /\ UNCHANGED <<op, args, clock, result>>

\* errC <- err: the value goes to a main goroutine parked in the select,
\* else into the buffer when it has room; the send blocks otherwise
ListenerSends ==
    /\ pc.listener = "send"
    /\ pc.main = "parked" \/ Len(locals.errC) < ErrCCapacity
    /\ locals' = [locals EXCEPT
                     !.errC = IF pc.main = "parked" THEN @ ELSE Append(@, locals.err)]
    /\ pc' = [main |-> IF pc.main = "parked" THEN "returned" ELSE pc.main,
              listener |-> "end"]
    /\ result' = IF pc.main = "parked" THEN ReturnOfListen(locals.err) ELSE result
    /\ UNCHANGED <<op, args, clock>>

NextStdio ==
    \/ MainStart
    \/ MainGo
    \/ MainStderr
    \/ MainParks
    \/ MainSelectsDone
    \/ MainSelectsErrC
    \/ SignalDelivered
    \/ ContextCancelled
    \/ ListenReturns
    \/ ListenerSends

SpecStdio == InitStdio /\ [][NextStdio]_vars

\* C30: once SIGINT or SIGTERM has been delivered, runStdioServer returns
\* nil whatever the listener returns after that, under every interleaving
\* of the two goroutines, and the listener's send on errC never blocks.
C30_CleanShutdown ==
    /\ (pc.main = "returned" /\ locals.signal = "delivered" /\ locals.listened # "before") =>
           result = NoError
    /\ pc.listener = "send" => (pc.main = "parked" \/ Len(locals.errC) < ErrCCapacity)

====
